---- MODULE Spec2Model ----
(***************************************************************************)
(* telegraws: one monitoring cycle (main.go logic): time-window policy,    *)
(* per-service collectors with partial-failure isolation, report assembly  *)
(* (utils.BuildMessage) and the single delivery attempt.                   *)
(*                                                                         *)
(* Strings are sequences of one-character strings.  Instants are exact     *)
(* signed nanosecond offsets from the evaluation instant time.Now(), kept  *)
(* in two's complement little-endian bytes; time.Duration is an int64.     *)
(*                                                                         *)
(* backend is the set of services whose backend is followed call by call,  *)
(* replies records what the backend answered to each collector call,       *)
(* queries the CloudWatch calls a collector of such a service issued, and  *)
(* sendErr what SendToTelegram returned.                                   *)
(***************************************************************************)
EXTENDS Integers, Sequences, FiniteSets, TLC

VARIABLES cfg, nowHour, backend, pc, timeParams, replies, queries, allMetrics,
          invoked, errors, message, sends, sendErr, result

vars == <<cfg, nowHour, backend, pc, timeParams, replies, queries, allMetrics,
          invoked, errors, message, sends, sendErr, result>>

(***************************************************************************)
(* Bounds of the model.                                                    *)
(***************************************************************************)
MaxResources == 2
MaxIdLen == 2
MaxPoints == 2
MaxPages == 2
MaxArns == 2
MaxSeries == 2

(***************************************************************************)
(* Fixed-width integer arithmetic on little-endian byte sequences.         *)
(***************************************************************************)
Byte == 256
DurationBytes == 8
TimeBytes == 9

RECURSIVE FromNat(_, _)
FromNat(p, n) == IF n = 0 THEN <<>> ELSE <<p % Byte>> \o FromNat(p \div Byte, n - 1)

RECURSIVE AddFrom(_, _, _, _)
AddFrom(a, b, k, carry) ==
    IF k > Len(a) THEN <<>>
    ELSE LET s == a[k] + b[k] + carry
         IN <<s % Byte>> \o AddFrom(a, b, k + 1, s \div Byte)

\* a + b modulo 2^(8 * Len(a))
AddW(a, b) == AddFrom(a, b, 1, 0)

\* -a modulo 2^(8 * Len(a))
NegW(a) == AddW([i \in 1..Len(a) |-> (Byte - 1) - a[i]], FromNat(1, Len(a)))

RECURSIVE DotFrom(_, _, _, _)
DotFrom(a, b, k, i) ==
    IF i > k THEN 0 ELSE a[i] * b[k + 1 - i] + DotFrom(a, b, k, i + 1)

RECURSIVE MulFrom(_, _, _, _)
MulFrom(a, b, k, carry) ==
    IF k > Len(a) THEN <<>>
    ELSE LET s == carry + DotFrom(a, b, k, 1)
         IN <<s % Byte>> \o MulFrom(a, b, k + 1, s \div Byte)

\* a * b modulo 2^(8 * Len(a))
MulW(a, b) == MulFrom(a, b, 1, 0)

IsNegW(a) == a[Len(a)] >= Byte \div 2

\* sign extension of a Duration to the width of an instant
Widen(d) == d \o [i \in 1..(TimeBytes - Len(d)) |-> IF IsNegW(d) THEN Byte - 1 ELSE 0]

\* time.Hour = 3600000000000 ns = 0x34630B8A000
Hour == <<0, 160, 184, 48, 70, 3, 0, 0>>

\* time.Duration(n) * time.Hour, in int64
Hours(n) == MulW(n, Hour)

\* Time.Add: exact on instants
TimeAdd(t, d) == AddW(t, Widen(d))

\* Time.Before
TimeBefore(t, u) == IsNegW(AddW(t, NegW(u)))

\* time.Now(): the evaluation instant, origin of the offsets
Now == FromNat(0, TimeBytes)

\* the largest and the smallest Duration
maxDuration == [i \in 1..DurationBytes |-> IF i = DurationBytes THEN Byte \div 2 - 1 ELSE Byte - 1]
minDuration == [i \in 1..DurationBytes |-> IF i = DurationBytes THEN Byte \div 2 ELSE 0]

\* Time.Sub: t - u, or the nearest Duration when the difference does not fit
TimeSub(t, u) ==
    LET d == AddW(t, NegW(u))
    IN IF Widen(SubSeq(d, 1, DurationBytes)) = d THEN SubSeq(d, 1, DurationBytes)
       ELSE IF IsNegW(d) THEN minDuration ELSE maxDuration

\* a >= b on Durations
DurationGeq(a, b) == ~IsNegW(AddW(Widen(a), NegW(Widen(b))))

\* Time.AddDate(0, 0, days): the same clock time that many days away
AddDate(t, days) ==
    IF days < 0 THEN TimeAdd(t, NegW(Hours(FromNat(24 * (0 - days), DurationBytes))))
    ELSE TimeAdd(t, Hours(FromNat(24 * days, DurationBytes)))


(***************************************************************************)
(* Strings.                                                                *)
(***************************************************************************)
RECURSIVE Repeat(_, _)
Repeat(c, n) == IF n = 0 THEN <<>> ELSE <<c>> \o Repeat(c, n - 1)

\* strings.Contains
Contains(s, sub) ==
    \E i \in 0..(Len(s) - Len(sub)) : SubSeq(s, i + 1, i + Len(sub)) = sub

RECURSIVE ReplaceAll(_, _, _)
\* strings.ReplaceAll for a one-character pattern
ReplaceAll(text, old, new) ==
    IF text = <<>> THEN <<>>
    ELSE (IF Head(text) = old THEN new ELSE <<Head(text)>>)
         \o ReplaceAll(Tail(text), old, new)

escapeMarkdown(text) ==
    ReplaceAll(ReplaceAll(text, "_", <<"\\", "_">>), "*", <<"\\", "*">>)

(***************************************************************************)
(* Configuration (config.Config) and its validation.                       *)
(***************************************************************************)
Services == {"ec2", "s3", "alb", "cloudfront", "cloudwatchAgent",
             "cloudwatchLogs", "waf", "dynamodb", "rds"}

\* ids: the identifier fields, in the order of the ServiceConfig struct
Config(en, period, dailyHour, ids) ==
    [Global |-> [Monitoring |-> [DefaultPeriod |-> period,
                                 DailyReportHour |-> dailyHour]],
     Services |->
       [EC2 |-> [Enabled |-> "ec2" \in en, InstanceID |-> ids.ec2],
        S3 |-> [Enabled |-> "s3" \in en, BucketName |-> ids.bucket],
        ALB |-> [Enabled |-> "alb" \in en, ALBName |-> ids.alb],
        CloudFront |-> [Enabled |-> "cloudfront" \in en, DistributionID |-> ids.dist],
        CloudWatchAgent |-> [Enabled |-> "cloudwatchAgent" \in en,
                             InstanceID |-> ids.agent],
        CloudWatchLogs |-> [Enabled |-> "cloudwatchLogs" \in en,
                            LogGroupNames |-> ids.groups],
        WAF |-> [Enabled |-> "waf" \in en, WebACLName |-> ids.acl, Scope |-> ids.scope],
        DynamoDB |-> [Enabled |-> "dynamodb" \in en, TableNames |-> ids.tables],
        RDS |-> [Enabled |-> "rds" \in en, ClusterID |-> ids.cluster,
                 DBInstanceIdentifier |-> ids.dbInstance]]]

Enabled(c, svc) ==
    CASE svc = "ec2" -> c.Services.EC2.Enabled
      [] svc = "s3" -> c.Services.S3.Enabled
      [] svc = "alb" -> c.Services.ALB.Enabled
      [] svc = "cloudfront" -> c.Services.CloudFront.Enabled
      [] svc = "cloudwatchAgent" -> c.Services.CloudWatchAgent.Enabled
      [] svc = "cloudwatchLogs" -> c.Services.CloudWatchLogs.Enabled
      [] svc = "waf" -> c.Services.WAF.Enabled
      [] svc = "dynamodb" -> c.Services.DynamoDB.Enabled
      [] svc = "rds" -> c.Services.RDS.Enabled

\* the checks of validateConfig on the fields the model keeps
validateConfig(c) ==
    /\ ~(c.Global.Monitoring.DailyReportHour < 0
         \/ c.Global.Monitoring.DailyReportHour > 23)
    /\ ~(c.Global.Monitoring.DefaultPeriod < 0)
    /\ ~(c.Services.EC2.Enabled /\ c.Services.EC2.InstanceID = <<>>)
    /\ ~(c.Services.S3.Enabled /\ c.Services.S3.BucketName = <<>>)
    /\ ~(c.Services.ALB.Enabled /\ c.Services.ALB.ALBName = <<>>)
    /\ ~(c.Services.CloudFront.Enabled /\ c.Services.CloudFront.DistributionID = <<>>)
    /\ ~(c.Services.CloudWatchAgent.Enabled
         /\ c.Services.CloudWatchAgent.InstanceID = <<>>)
    /\ ~(c.Services.CloudWatchLogs.Enabled
         /\ Len(c.Services.CloudWatchLogs.LogGroupNames) = 0)
    /\ ~(c.Services.WAF.Enabled
         /\ (\/ c.Services.WAF.WebACLName = <<>>
             \/ c.Services.WAF.Scope \notin {"REGIONAL", "CLOUDFRONT", ""}))
    /\ ~(c.Services.DynamoDB.Enabled /\ Len(c.Services.DynamoDB.TableNames) = 0)
    /\ ~(c.Services.RDS.Enabled
         /\ c.Services.RDS.ClusterID = <<>>
         /\ c.Services.RDS.DBInstanceIdentifier = <<>>)

(***************************************************************************)
(* Time Window Policy (Config.GetTimeParams).                              *)
(***************************************************************************)
NoWindow == [nil |-> TRUE]

DailyLookbackHours == 24

isDailyReportAtOrAfter(c, hour) == hour >= c.Global.Monitoring.DailyReportHour

\* now.Hour() == c.Global.Monitoring.DailyReportHour
isDailyReport(c, hour) == hour = c.Global.Monitoring.DailyReportHour

skipWindowOnZeroPeriod(c, hour) == c.Global.Monitoring.DefaultPeriod = 0

\* the early exit: no defaultPeriod and not the daily report hour
skipWindow(c, hour) ==
    c.Global.Monitoring.DefaultPeriod = 0 /\ ~isDailyReport(c, hour)

\* the (*TimeParams, nil) result; LoadLocation of the validated timezone succeeds
GetTimeParams(c, hour) ==
    IF skipWindow(c, hour) THEN NoWindow
    ELSE [StartTime |->
            IF isDailyReport(c, hour)
            THEN TimeAdd(Now, NegW(Hours(FromNat(DailyLookbackHours, DurationBytes))))
            ELSE TimeAdd(Now, Hours(NegW(FromNat(c.Global.Monitoring.DefaultPeriod,
                                                 DurationBytes)))),
          EndTime |-> Now,
          IsDailyReport |-> isDailyReport(c, hour)]


(***************************************************************************)
(* Backend answers.  A metric query answers with an error or with the data *)
(* points of the window in the order the backend chose; a float64 is kept  *)
(* as the exact quotient num/den.                                          *)
(***************************************************************************)
RECURSIVE GCD(_, _)
GCD(a, b) == IF b = 0 THEN a ELSE GCD(b, a % b)

Quot(n, d) == [num |-> n \div GCD(n, d), den |-> d \div GCD(n, d)]
Float(n) == Quot(n, 1)
Zero == Float(0)
MiB == 1024 * 1024
GiB == 1024 * 1024 * 1024
Times(x, k) == Quot(x.num * k, x.den)
Over(x, k) == Quot(x.num, x.den * k)

QueryError == [err |-> TRUE]
QueryOutput(points) == [err |-> FALSE, Datapoints |-> points]

RECURSIVE latestFrom(_, _)
\* for _, dp := range result.Datapoints { if dp.Timestamp.After(*latest.Timestamp) { latest = dp } }
latestFrom(points, latest) ==
    IF points = <<>> THEN latest
    ELSE latestFrom(Tail(points),
                    IF Head(points).Timestamp > latest.Timestamp THEN Head(points) ELSE latest)

RECURSIVE Sum(_)
Sum(points) == IF points = <<>> THEN 0 ELSE Head(points).Value + Sum(Tail(points))

(***************************************************************************)
(* Collectors.  A collector's result is (metrics, err); reply.pre is the   *)
(* answer to its lookup calls and reply.q[i] the answer to its i-th        *)
(* metric query.                                                           *)
(***************************************************************************)
EmptyMap == <<>>

\* a pointer is the empty sequence (nil) or the one value it points to
Nil == <<>>

Failure == [err |-> TRUE]
Success(m) == [err |-> FALSE, metrics |-> m]

Metric(name, statistic) == [Name |-> name, Statistic |-> statistic]

Dimension(name, value) == [Name |-> name, Value |-> value]

periodOfLongerOnly(tp) ==
    IF ~DurationGeq(Hours(FromNat(24, DurationBytes)), TimeSub(tp.EndTime, tp.StartTime))
    THEN 86400 ELSE 3600

\* period := 3600; if endTime.Sub(startTime) >= 24*time.Hour { period = 86400 }
periodOf(tp) ==
    IF DurationGeq(TimeSub(tp.EndTime, tp.StartTime), Hours(FromNat(24, DurationBytes)))
    THEN 86400 ELSE 3600

ListMetricsInput(namespace, name, dimensions) ==
    [op |-> "ListMetrics", Namespace |-> namespace, MetricName |-> name,
     Dimensions |-> dimensions]

GetMetricStatisticsInput(namespace, metric, dimensions, startTime, endTime, seconds) ==
    [op |-> "GetMetricStatistics", Namespace |-> namespace, MetricName |-> metric.Name,
     Dimensions |-> dimensions, StartTime |-> startTime, EndTime |-> endTime,
     Period |-> seconds, Statistic |-> metric.Statistic]

\* how many of the n queries from q[first] on a loop issues when a failed
\* query returns from it
Reached(q, first, n) ==
    IF \E i \in 1..n : q[first + i - 1].err
    THEN CHOOSE i \in 1..n : q[first + i - 1].err /\ \A j \in 1..(i - 1) : ~q[first + j - 1].err
    ELSE n

ec2Metrics ==
    << Metric("CPUUtilization", "Average"), Metric("CPUUtilization", "Maximum"),
       Metric("StatusCheckFailed", "Sum"), Metric("NetworkIn", "Sum"),
       Metric("NetworkOut", "Sum") >>

\* metricKey := metric.Name; for CPUUtilization, name_statistic
ec2Key(metric) ==
    IF metric.Name = "CPUUtilization" THEN metric.Name \o "_" \o metric.Statistic
    ELSE metric.Name

ec2StoreNoDefault(metrics, metric, points) ==
    LET metricKey == ec2Key(metric)
    IN IF Len(points) > 0
       THEN (metricKey :> (IF metric.Name \in {"NetworkIn", "NetworkOut"}
                           THEN Over(Float(points[1].Value), MiB)
                           ELSE Float(points[1].Value))) @@ metrics
       ELSE metrics

\* if len(result.Datapoints) > 0 { value of Datapoints[0] } else { 0.0 }
ec2Store(metrics, metric, points) ==
    LET metricKey == ec2Key(metric)
    IN IF Len(points) > 0
       THEN (metricKey :> (IF metric.Name \in {"NetworkIn", "NetworkOut"}
                           THEN Over(Float(points[1].Value), MiB)
                           ELSE Float(points[1].Value))) @@ metrics
       ELSE (metricKey :> Zero) @@ metrics

RECURSIVE ec2Range(_, _, _)
\* for _, metric := range ec2Metrics { ...; if err != nil { return nil, err } ... }
ec2Range(metrics, i, q) ==
    IF i > Len(ec2Metrics) THEN Success(metrics)
    ELSE IF q[i].err THEN Failure
    ELSE ec2Range(ec2Store(metrics, ec2Metrics[i], q[i].Datapoints), i + 1, q)

EC2Metrics(reply) == ec2Range(EmptyMap, 1, reply.q)

EC2Queries(instanceID, tp, reply) ==
    LET seconds == periodOf(tp)
    IN
    [i \in 1..Reached(reply.q, 1, Len(ec2Metrics)) |->
        GetMetricStatisticsInput("AWS/EC2", ec2Metrics[i],
                                 << Dimension("InstanceId", instanceID) >>,
                                 tp.StartTime, tp.EndTime, seconds)]

storageTypes ==
    << "StandardStorage", "StandardIAStorage", "ReducedRedundancyStorage",
       "GlacierStorage", "DeepArchiveStorage", "IntelligentTieringFAStorage",
       "IntelligentTieringIAStorage", "IntelligentTieringAAStorage",
       "IntelligentTieringAIAStorage", "IntelligentTieringDAAStorage" >>

RECURSIVE s3TotalSize(_, _)
\* if err != nil || len(result.Datapoints) == 0 { continue }; totalSize += *latest.Average
s3TotalSize(i, q) ==
    IF i > Len(storageTypes) THEN 0
    ELSE (IF q[i].err \/ Len(q[i].Datapoints) = 0 THEN 0
          ELSE latestFrom(q[i].Datapoints, q[i].Datapoints[1]).Value)
         + s3TotalSize(i + 1, q)

\* a failed query counts as nothing; the collector always returns (metrics, nil)
S3Metrics(reply) ==
    LET objects == reply.q[Len(storageTypes) + 1]
    IN Success(("NumberOfObjects" :>
                   (IF ~objects.err /\ Len(objects.Datapoints) > 0
                    THEN Float(latestFrom(objects.Datapoints, objects.Datapoints[1]).Value)
                    ELSE Zero))
               @@ ("BucketSizeMB" :> Over(Float(s3TotalSize(1, reply.q)), MiB)))

\* period := 86400; StartTime: startTime.AddDate(0, 0, -1); every query is issued
S3Queries(bucketName, tp, reply) ==
    LET startTime == AddDate(tp.StartTime, -1)
    IN
    [i \in 1..(Len(storageTypes) + 1) |->
        IF i <= Len(storageTypes)
        THEN GetMetricStatisticsInput("AWS/S3", Metric("BucketSizeBytes", "Average"),
                                      << Dimension("BucketName", bucketName),
                                         Dimension("StorageType", storageTypes[i]) >>,
                                      startTime, tp.EndTime, 86400)
        ELSE GetMetricStatisticsInput("AWS/S3", Metric("NumberOfObjects", "Average"),
                                      << Dimension("BucketName", bucketName),
                                         Dimension("StorageType", "AllStorageTypes") >>,
                                      startTime, tp.EndTime, 86400)]

albMetrics ==
    << Metric("RequestCount", "Sum"), Metric("TargetResponseTime", "Average"),
       Metric("HTTPCode_Target_2XX_Count", "Sum"), Metric("HTTPCode_Target_4XX_Count", "Sum"),
       Metric("HTTPCode_Target_5XX_Count", "Sum"), Metric("HTTPCode_ELB_4XX_Count", "Sum"),
       Metric("HTTPCode_ELB_5XX_Count", "Sum"), Metric("HealthyHostCount", "Average"),
       Metric("UnHealthyHostCount", "Average") >>

RECURSIVE albRange(_, _, _)
albRange(metrics, i, q) ==
    IF i > Len(albMetrics) THEN Success(metrics)
    ELSE IF q[i].err THEN Failure
    ELSE albRange((albMetrics[i].Name :>
                      (IF Len(q[i].Datapoints) > 0
                       THEN Float(q[i].Datapoints[1].Value) ELSE Zero)) @@ metrics,
                  i + 1, q)

appPrefix == <<"a", "p", "p", "/">>

HasPrefix(s, prefix) == Len(s) >= Len(prefix) /\ SubSeq(s, 1, Len(prefix)) = prefix

RECURSIVE albDimensionOf(_, _)
\* for _, dimension := range metric.Dimensions { if LoadBalancer && Contains { ...; break } }
albDimensionOf(dimensions, albName) ==
    IF dimensions = <<>> THEN <<>>
    ELSE IF Head(dimensions).Name = "LoadBalancer" /\ Contains(Head(dimensions).Value[1], albName)
    THEN Head(dimensions).Value[1]
    ELSE albDimensionOf(Tail(dimensions), albName)

RECURSIVE albDimensionIn(_, _)
\* for _, metric := range listResult.Metrics { ...; if loadBalancerDimension != "" { break } }
albDimensionIn(metrics, albName) ==
    IF metrics = <<>> THEN <<>>
    ELSE IF albDimensionOf(Head(metrics).Dimensions, albName) # <<>>
    THEN albDimensionOf(Head(metrics).Dimensions, albName)
    ELSE albDimensionIn(Tail(metrics), albName)

loadBalancerDimensionAlwaysListed(albName, pre) ==
    IF pre.err THEN [err |-> TRUE, listed |-> TRUE]
    ELSE IF albDimensionIn(pre.Metrics, albName) = <<>> THEN [err |-> TRUE, listed |-> TRUE]
    ELSE [err |-> FALSE, listed |-> TRUE, value |-> albDimensionIn(pre.Metrics, albName)]

\* a name with the "app/" prefix is the dimension; any other name is looked
\* up with ListMetrics, and a failed or fruitless lookup is an error
loadBalancerDimension(albName, pre) ==
    IF HasPrefix(albName, appPrefix) THEN [err |-> FALSE, listed |-> FALSE, value |-> albName]
    ELSE IF pre.err THEN [err |-> TRUE, listed |-> TRUE]
    ELSE IF albDimensionIn(pre.Metrics, albName) = <<>> THEN [err |-> TRUE, listed |-> TRUE]
    ELSE [err |-> FALSE, listed |-> TRUE, value |-> albDimensionIn(pre.Metrics, albName)]

\* a failed resolution or a failed query fails the collector
ALBMetrics(albName, reply) ==
    IF loadBalancerDimension(albName, reply.pre).err THEN Failure
    ELSE albRange(EmptyMap, 1, reply.q)

ALBQueries(albName, tp, reply) ==
    LET seconds == periodOf(tp)
        resolved == loadBalancerDimension(albName, reply.pre)
    IN (IF resolved.listed
        THEN << ListMetricsInput("AWS/ApplicationELB", "RequestCount", <<>>) >>
        ELSE <<>>)
       \o (IF resolved.err THEN <<>>
           ELSE [i \in 1..Reached(reply.q, 1, Len(albMetrics)) |->
                    GetMetricStatisticsInput("AWS/ApplicationELB", albMetrics[i],
                                             << Dimension("LoadBalancer", resolved.value) >>,
                                             tp.StartTime, tp.EndTime, seconds)])

cloudFrontMetrics ==
    << Metric("Requests", "Sum"), Metric("4xxErrorRate", "Average"),
       Metric("5xxErrorRate", "Average"), Metric("BytesUploaded", "Sum"),
       Metric("BytesDownloaded", "Sum") >>

\* an Average is the mean over the points, a Sum their total (bytes in MB)
cloudFrontValue(metric, points) ==
    IF metric.Statistic = "Average" THEN Over(Float(Sum(points)), Len(points))
    ELSE IF metric.Name \in {"BytesDownloaded", "BytesUploaded"}
    THEN Over(Float(Sum(points)), MiB)
    ELSE Float(Sum(points))

RECURSIVE cloudFrontRange(_, _, _)
cloudFrontRange(metrics, i, q) ==
    IF i > Len(cloudFrontMetrics) THEN Success(metrics)
    ELSE IF q[i].err THEN Failure
    ELSE cloudFrontRange((cloudFrontMetrics[i].Name :>
                             (IF Len(q[i].Datapoints) > 0
                              THEN cloudFrontValue(cloudFrontMetrics[i], q[i].Datapoints)
                              ELSE Zero)) @@ metrics,
                         i + 1, q)

CloudFrontMetrics(reply) == cloudFrontRange(EmptyMap, 1, reply.q)

CloudFrontQueries(distributionID, tp, reply) ==
    LET seconds == periodOf(tp)
    IN
    [i \in 1..Reached(reply.q, 1, Len(cloudFrontMetrics)) |->
        GetMetricStatisticsInput("AWS/CloudFront", cloudFrontMetrics[i],
                                 << Dimension("DistributionId", distributionID),
                                    Dimension("Region", "Global") >>,
                                 tp.StartTime, tp.EndTime, seconds)]

memMetrics == <<"Average", "Maximum">>

\* whether a listed series carries the dimension InstanceId of this instance
isCorrectInstance(dimensions, instanceID) ==
    \E i \in 1..Len(dimensions) :
        dimensions[i].Name = "InstanceId" /\ dimensions[i].Value[1] = instanceID

RECURSIVE dimensionValue(_, _, _)
\* for _, dim := range metric.Dimensions { case name: if dim.Value != nil { v = *dim.Value } }
dimensionValue(dimensions, name, current) ==
    IF dimensions = <<>> THEN current
    ELSE dimensionValue(Tail(dimensions), name,
                        IF Head(dimensions).Name = name /\ Head(dimensions).Value # Nil
                        THEN Head(dimensions).Value[1] ELSE current)

RECURSIVE diskDimensions(_, _, _, _)
\* var device, fstype string; for _, metric := range listResult.Metrics { ...
\*     if device != "" && fstype != "" { break } }
diskDimensions(metrics, instanceID, device, fstype) ==
    IF metrics = <<>> THEN [device |-> device, fstype |-> fstype]
    ELSE IF ~isCorrectInstance(Head(metrics).Dimensions, instanceID)
    THEN diskDimensions(Tail(metrics), instanceID, device, fstype)
    ELSE LET d == dimensionValue(Head(metrics).Dimensions, "device", device)
             f == dimensionValue(Head(metrics).Dimensions, "fstype", fstype)
         IN IF d # "" /\ f # "" THEN [device |-> d, fstype |-> f]
            ELSE diskDimensions(Tail(metrics), instanceID, d, f)

cwAgentDiskFull(disk) ==
    IF Len(disk.Datapoints) > 0 THEN Float(disk.Datapoints[1].Value) ELSE Float(100)

\* if len(diskResult.Datapoints) > 0 { Datapoints[0].Average } else { 0.0 }
cwAgentDisk(disk) ==
    IF Len(disk.Datapoints) > 0 THEN Float(disk.Datapoints[1].Value) ELSE Zero

\* both memory statistics, the ListMetrics lookup of the disk dimensions, then
\* the disk query; any failed call fails the collector
CWAgentMetrics(reply) ==
    IF (\E i \in 1..Len(memMetrics) : reply.q[i].err) \/ reply.pre.err
          \/ reply.q[Len(memMetrics) + 1].err
    THEN Failure
    ELSE Success(
            [k \in {"mem_used_percent_" \o memMetrics[i] : i \in 1..Len(memMetrics)} |->
                LET i == CHOOSE j \in 1..Len(memMetrics) : k = "mem_used_percent_" \o memMetrics[j]
                IN IF Len(reply.q[i].Datapoints) > 0
                   THEN Float(reply.q[i].Datapoints[1].Value) ELSE Zero]
            @@ ("disk_used_percent" :> cwAgentDisk(reply.q[Len(memMetrics) + 1])))

CWAgentQueries(instanceID, tp, reply) ==
    LET seconds == periodOf(tp)
        mem == Reached(reply.q, 1, Len(memMetrics))
        memFailed == \E i \in 1..Len(memMetrics) : reply.q[i].err
        found == diskDimensions(reply.pre.Metrics, instanceID, "", "")
    IN [i \in 1..mem |->
           GetMetricStatisticsInput("CWAgent", Metric("mem_used_percent", memMetrics[i]),
                                    << Dimension("InstanceId", instanceID) >>,
                                    tp.StartTime, tp.EndTime, seconds)]
       \o (IF memFailed THEN <<>>
           ELSE << ListMetricsInput("CWAgent", "disk_used_percent",
                                    << Dimension("InstanceId", instanceID),
                                       Dimension("path", "/") >>) >>)
       \o (IF memFailed \/ reply.pre.err THEN <<>>
           ELSE << GetMetricStatisticsInput(
                      "CWAgent", Metric("disk_used_percent", "Average"),
                      << Dimension("InstanceId", instanceID), Dimension("path", "/"),
                         Dimension("device", found.device), Dimension("fstype", found.fstype) >>,
                      tp.StartTime, tp.EndTime, seconds) >>)

levels == <<"error", "warn", "info">>

RECURSIVE countPages(_)
\* for paginator.HasMorePages() { if err != nil { break }; count += len(output.Events) }
countPages(pages) ==
    IF pages = <<>> \/ Head(pages).err THEN 0
    ELSE Head(pages).Events + countPages(Tail(pages))

CWLogsFailing(reply) ==
    IF \E i \in 1..Len(reply.q) : \E j \in 1..Len(reply.q[i]) : reply.q[i][j].err
    THEN Failure
    ELSE Success([l \in {levels[i] : i \in 1..Len(levels)} |->
                     countPages(reply.q[CHOOSE i \in 1..Len(levels) : levels[i] = l])])

\* a failed search is logged and the level counted as it stands; never an error
CWLogs(reply) ==
    Success([l \in {levels[i] : i \in 1..Len(levels)} |->
                countPages(reply.q[CHOOSE i \in 1..Len(levels) : levels[i] = l])])

\* GetWebACL, then for a regional scope the load balancers of the web ACL:
\* exactly one is needed
getALBARNFromWAF(scope, pre) ==
    IF pre.acl.err THEN [err |-> TRUE]
    ELSE IF scope = "CLOUDFRONT" THEN [err |-> FALSE, arn |-> ""]
    ELSE IF pre.list.err THEN [err |-> TRUE]
    ELSE IF pre.list.ResourceArns = 0 THEN [err |-> TRUE]
    ELSE IF pre.list.ResourceArns > 1 THEN [err |-> TRUE]
    ELSE [err |-> FALSE, arn |-> "arn"]

wafMetrics == << Metric("AllowedRequests", "Sum"), Metric("BlockedRequests", "Sum") >>

RECURSIVE wafRange(_, _, _)
\* a failed query is logged and the metric skipped
wafRange(metrics, i, q) ==
    IF i > Len(wafMetrics) THEN Success(metrics)
    ELSE IF q[i].err THEN wafRange(metrics, i + 1, q)
    ELSE wafRange((wafMetrics[i].Name :>
                      (IF Len(q[i].Datapoints) > 0
                       THEN Float(q[i].Datapoints[1].Value) ELSE Zero)) @@ metrics,
                  i + 1, q)

wafDimensions(scope, webACLName, albARN) ==
    IF scope = "CLOUDFRONT" THEN [WebACL |-> webACLName]
    ELSE [Resource |-> albARN, ResourceType |-> "ALB"]

wafScopeOf(scopeStr) == IF scopeStr = "CLOUDFRONT" THEN "CLOUDFRONT" ELSE "REGIONAL"

WAFMetricsAnyScope(scopeStr, reply) ==
    IF getALBARNFromWAF(wafScopeOf(scopeStr), reply.pre).err
    THEN Failure
    ELSE wafRange(EmptyMap, 1, reply.q)

\* if err != nil && scope == wafTypes.ScopeRegional { return nil, err }
WAFMetrics(scopeStr, reply) ==
    IF getALBARNFromWAF(wafScopeOf(scopeStr), reply.pre).err /\ wafScopeOf(scopeStr) = "REGIONAL"
    THEN Failure
    ELSE wafRange(EmptyMap, 1, reply.q)

\* every metric is queried: a failed query does not end the loop
WAFQueries(webACLName, scopeStr, tp, reply) ==
    LET seconds == periodOf(tp)
        found == getALBARNFromWAF(wafScopeOf(scopeStr), reply.pre)
    IN IF WAFMetrics(scopeStr, reply).err THEN <<>>
       ELSE [i \in 1..Len(wafMetrics) |->
                GetMetricStatisticsInput("AWS/WAFV2", wafMetrics[i],
                                         wafDimensions(wafScopeOf(scopeStr), webACLName,
                                                       IF found.err THEN "" ELSE found.arn),
                                         tp.StartTime, tp.EndTime, seconds)]

dynamoMetricsAlways(onDemand) ==
    << Metric("ReadThrottleEvents", "Sum"), Metric("WriteThrottleEvents", "Sum"),
       Metric("SystemErrors", "Sum"), Metric("UserErrors", "Sum"),
       Metric("ConsumedReadCapacityUnits", "Sum"), Metric("ConsumedWriteCapacityUnits", "Sum"),
       Metric("RequestCount", "Sum"), Metric("SuccessfulRequestLatency", "Average") >>

\* if !onDemand { dynamoMetrics = append(dynamoMetrics, RequestCount, SuccessfulRequestLatency) }
dynamoMetrics(onDemand) ==
    << Metric("ReadThrottleEvents", "Sum"), Metric("WriteThrottleEvents", "Sum"),
       Metric("SystemErrors", "Sum"), Metric("UserErrors", "Sum"),
       Metric("ConsumedReadCapacityUnits", "Sum"), Metric("ConsumedWriteCapacityUnits", "Sum") >>
    \o (IF ~onDemand
        THEN << Metric("RequestCount", "Sum"), Metric("SuccessfulRequestLatency", "Average") >>
        ELSE <<>>)

\* out.Table != nil && BillingModeSummary != nil && BillingMode == PAY_PER_REQUEST
onDemandOf(out) ==
    /\ out.Table # Nil
    /\ out.Table[1].BillingModeSummary # Nil
    /\ out.Table[1].BillingModeSummary[1] = "PAY_PER_REQUEST"

\* BillingMode and ItemCount come from DescribeTable
dynamoDescribed(out) ==
    ("BillingMode" :> (IF onDemandOf(out) THEN Float(1) ELSE Zero))
    @@ ("ItemCount" :> (IF out.Table # Nil /\ out.Table[1].ItemCount # Nil
                        THEN Float(out.Table[1].ItemCount[1]) ELSE Zero))

RECURSIVE dynamoRange(_, _, _, _)
dynamoRange(metrics, list, i, q) ==
    IF i > Len(list) THEN Success(metrics)
    ELSE IF q[i].err THEN Failure
    ELSE dynamoRange((list[i].Name :>
                         (IF Len(q[i].Datapoints) > 0
                          THEN Float(latestFrom(q[i].Datapoints, q[i].Datapoints[1]).Value)
                          ELSE Zero)) @@ metrics,
                     list, i + 1, q)

\* a failed DescribeTable or a failed query fails the collector
DynamoDBMetrics(reply) ==
    IF reply.pre.err THEN Failure
    ELSE dynamoRange(dynamoDescribed(reply.pre), dynamoMetrics(onDemandOf(reply.pre)), 1, reply.q)

DynamoDBQueries(tableName, tp, reply) ==
    LET seconds == periodOf(tp)
    IN
    IF reply.pre.err THEN <<>>
    ELSE [i \in 1..Reached(reply.q, 1, Len(dynamoMetrics(onDemandOf(reply.pre)))) |->
             GetMetricStatisticsInput("AWS/DynamoDB", dynamoMetrics(onDemandOf(reply.pre))[i],
                                      << Dimension("TableName", tableName) >>,
                                      tp.StartTime, tp.EndTime, seconds)]

instanceMetrics ==
    << Metric("CPUUtilization", "Average"), Metric("CPUUtilization", "Maximum"),
       Metric("FreeableMemory", "Average"), Metric("DatabaseConnections", "Maximum"),
       Metric("ReadLatency", "Average"), Metric("WriteLatency", "Average") >>

clusterMetrics ==
    << Metric("VolumeBytesUsed", "Average"), Metric("VolumeReadIOPs", "Average"),
       Metric("VolumeWriteIOPs", "Average") >>

instanceKey(metric) ==
    IF metric.Name = "CPUUtilization" THEN "Instance_CPUUtilization_" \o metric.Statistic
    ELSE "Instance_" \o metric.Name

instanceValue(metric, v) ==
    IF metric.Name = "FreeableMemory" THEN Over(Float(v), GiB)
    ELSE IF metric.Name \in {"ReadLatency", "WriteLatency"} THEN Times(Float(v), 1000)
    ELSE Float(v)

clusterValue(metric, v) ==
    IF metric.Name = "VolumeBytesUsed" THEN Over(Float(v), GiB) ELSE Float(v)

RECURSIVE instanceRange(_, _, _)
\* a failed query is logged and the metric skipped
instanceRange(metrics, i, q) ==
    IF i > Len(instanceMetrics) THEN metrics
    ELSE IF q[i].err THEN instanceRange(metrics, i + 1, q)
    ELSE instanceRange((instanceKey(instanceMetrics[i]) :>
                           (IF Len(q[i].Datapoints) > 0
                            THEN instanceValue(instanceMetrics[i], q[i].Datapoints[1].Value)
                            ELSE Zero)) @@ metrics,
                       i + 1, q)

RECURSIVE clusterRange(_, _, _)
clusterRange(metrics, i, q) ==
    IF i > Len(clusterMetrics) THEN metrics
    ELSE IF q[Len(instanceMetrics) + i].err THEN clusterRange(metrics, i + 1, q)
    ELSE clusterRange(("Cluster_" \o clusterMetrics[i].Name :>
                          (IF Len(q[Len(instanceMetrics) + i].Datapoints) > 0
                           THEN clusterValue(clusterMetrics[i],
                                             q[Len(instanceMetrics) + i].Datapoints[1].Value)
                           ELSE Zero)) @@ metrics,
                      i + 1, q)

\* fails only when both identifiers are empty; each level is queried only when
\* its identifier is configured
RDSMetrics(clusterID, instanceID, reply) ==
    IF clusterID = <<>> /\ instanceID = <<>> THEN Failure
    ELSE LET inst == IF instanceID # <<>> THEN instanceRange(EmptyMap, 1, reply.q) ELSE EmptyMap
         IN Success(IF clusterID # <<>> THEN clusterRange(inst, 1, reply.q) ELSE inst)

\* every metric of a configured level is queried
RDSQueries(clusterID, instanceID, tp, reply) ==
    LET seconds == periodOf(tp)
    IN
    IF clusterID = <<>> /\ instanceID = <<>> THEN <<>>
    ELSE (IF instanceID = <<>> THEN <<>>
          ELSE [i \in 1..Len(instanceMetrics) |->
                   GetMetricStatisticsInput("AWS/RDS", instanceMetrics[i],
                                            << Dimension("DBInstanceIdentifier", instanceID) >>,
                                            tp.StartTime, tp.EndTime, seconds)])
         \o (IF clusterID = <<>> THEN <<>>
             ELSE [i \in 1..Len(clusterMetrics) |->
                      GetMetricStatisticsInput("AWS/RDS", clusterMetrics[i],
                                               << Dimension("DBClusterIdentifier", clusterID) >>,
                                               tp.StartTime, tp.EndTime, seconds)])

(***************************************************************************)
(* Aggregation (main.go logic): folding collector results into allMetrics. *)
(***************************************************************************)
storeResultOrReset(all, key, r) ==
    IF r.err THEN EmptyMap ELSE (key :> r.metrics) @@ all

\* if err != nil { log } else { allMetrics[key] = metrics }
storeResult(all, key, r) ==
    IF r.err THEN all ELSE (key :> r.metrics) @@ all

LastIndex(names, idx, n) == CHOOSE i \in idx : names[i] = n /\ \A j \in idx : names[j] = n => j <= i

collectResourcesUntilFailure(names, results) ==
    LET idx == {i \in 1..Len(names) : \A j \in 1..i : ~results[j].err}
    IN [n \in {names[i] : i \in idx} |-> results[LastIndex(names, idx, n)].metrics]

\* for _, name := range names { r, err := f(name); if err != nil { continue }; m[name] = r }
collectResources(names, results) ==
    LET idx == {i \in 1..Len(names) : ~results[i].err}
    IN [n \in {names[i] : i \in idx} |-> results[LastIndex(names, idx, n)].metrics]

\* if len(m) > 0 { allMetrics[key] = m }
storeIfAny(all, key, m) ==
    IF Cardinality(DOMAIN m) > 0 THEN (key :> m) @@ all ELSE all

s3GateEnabledOnly(c, tp) == c.Services.S3.Enabled

\* appConfig.Services.S3.Enabled && timeParams.IsDailyReport
s3Gate(c, tp) == c.Services.S3.Enabled /\ tp.IsDailyReport

\* scope := appConfig.Services.WAF.Scope; if scope == "" { scope = "REGIONAL" }
wafScope(c) == IF c.Services.WAF.Scope = "" THEN "REGIONAL" ELSE c.Services.WAF.Scope

logicOnSkipError == [pc |-> "done", result |-> "error"]

\* if timeParams == nil { log; return nil }
logicOnSkip == [pc |-> "done", result |-> "nil"]


(***************************************************************************)
(* Report assembly (utils.BuildMessage).  The text is kept as its sequence *)
(* of lines; a line keeps its fixed label apart from the interpolated      *)
(* identifier, and "metrics" stands for the fixed metric lines of a block. *)
(***************************************************************************)
Line(kind, svc, label, ident) ==
    [kind |-> kind, svc |-> svc, label |-> label, ident |-> ident]

scheduleSeparator == "- - - - - - - - - - - - - - -"
dailySeparator == "= = = = = = = = = = = = = = ="

separator(tp) == IF tp.IsDailyReport THEN dailySeparator ELSE scheduleSeparator

\* "\n" + separator + "\n\n", then the end of the window and a blank line
opening(tp) ==
    << Line("blank", "", "", <<>>),
       Line("separator", "", separator(tp), <<>>),
       Line("blank", "", "", <<>>),
       [kind |-> "time", svc |-> "", label |-> "02/01/2006 15:04:05", ident |-> <<>>,
        at |-> tp.EndTime],
       Line("blank", "", "", <<>>) >>

closingAlwaysSchedule(tp) == << Line("separator", "", scheduleSeparator, <<>>) >>

\* if timeParams.IsDailyReport { dailySeparator + "\n" } else { scheduleSeparator + "\n" }
closing(tp) ==
    << Line("separator", "", IF tp.IsDailyReport THEN dailySeparator ELSE scheduleSeparator,
            <<>>) >>

\* reading a key a Go map does not hold yields 0
Get(m, key) == IF key \in DOMAIN m THEN m[key] ELSE Zero

Plus(x, y) == Quot(x.num * y.den + y.num * x.den, x.den * y.den)

RECURSIVE Pow10(_)
Pow10(n) == IF n = 0 THEN 1 ELSE 10 * Pow10(n - 1)

\* fmt's %.<digits>f: the nearest decimal with that many digits, ties to even
Fixed(x, digits) ==
    LET n == x.num * Pow10(digits)
        down == n \div x.den
        twice == 2 * (n % x.den)
    IN [digits |-> digits,
        scaled |-> IF twice > x.den \/ (twice = x.den /\ down % 2 = 1) THEN down + 1 ELSE down]

Text(svc, label) == Line("text", svc, label, <<>>)

Value(svc, label, x, digits, unit) ==
    [kind |-> "value", svc |-> svc, label |-> label, ident |-> <<>>,
     value |-> Fixed(x, digits), unit |-> unit]

sectionShownWrongKey(c, tp, all, svc) ==
    CASE svc = "s3" -> c.Services.S3.Enabled /\ tp.IsDailyReport /\ "s3" \in DOMAIN all
      [] svc = "cloudwatchAgent" -> c.Services.CloudWatchAgent.Enabled /\ "ec2" \in DOMAIN all
      [] OTHER -> Enabled(c, svc) /\ svc \in DOMAIN all

\* if cfg.Services.X.Enabled { if data, exists := allMetrics[key]; exists { ... } }
sectionShown(c, tp, all, svc) ==
    CASE svc = "s3" -> c.Services.S3.Enabled /\ tp.IsDailyReport /\ "s3" \in DOMAIN all
      [] OTHER -> Enabled(c, svc) /\ svc \in DOMAIN all

Section(c, tp, all, svc, lines) == IF sectionShown(c, tp, all, svc) THEN lines ELSE <<>>

ec2Section(c) ==
    << Line("header", "ec2", "*EC2*: ", c.Services.EC2.InstanceID),
       Line("metrics", "ec2", "", <<>>) >>

cwAgentSection(c) ==
    << Line("metrics", "cloudwatchAgent", "", <<>>),
       Line("blank", "cloudwatchAgent", "", <<>>) >>

s3Section(c) ==
    << Line("header", "s3", "*S3* ", escapeMarkdown(c.Services.S3.BucketName)),
       Line("metrics", "s3", "", <<>>),
       Line("blank", "s3", "", <<>>) >>

albSection(c) ==
    << Line("header", "alb", "*ALB* ", escapeMarkdown(c.Services.ALB.ALBName)),
       Line("metrics", "alb", "", <<>>),
       Line("blank", "alb", "", <<>>) >>

cloudFrontSection(c) ==
    << Line("header", "cloudfront", "*CloudFront* ", c.Services.CloudFront.DistributionID),
       Line("metrics", "cloudfront", "", <<>>),
       Line("blank", "cloudfront", "", <<>>) >>

dynamoRequestsAlwaysShown(tableMetrics) ==
    << Value("dynamodb", "Total Requests: ", Get(tableMetrics, "RequestCount"), 0, ""),
       Value("dynamodb", "Latency: ", Get(tableMetrics, "SuccessfulRequestLatency"), 2, " ms") >>

\* if billingMode == 0 { request count and latency } else { "N/A" texts }
dynamoRequests(tableMetrics) ==
    IF Get(tableMetrics, "BillingMode") = Zero
    THEN << Value("dynamodb", "Total Requests: ", Get(tableMetrics, "RequestCount"), 0, ""),
            Value("dynamodb", "Latency: ", Get(tableMetrics, "SuccessfulRequestLatency"), 2, " ms") >>
    ELSE << Text("dynamodb", "Total Requests: N/A (On-Demand)"),
            Text("dynamodb", "Latency: N/A") >>

dynamoLines(tableMetrics) ==
    dynamoRequests(tableMetrics)
    \o << Value("dynamodb", "Items: ", Get(tableMetrics, "ItemCount"), 0, ""),
           Value("dynamodb", "Read Throttles: ", Get(tableMetrics, "ReadThrottleEvents"), 0, ""),
           Value("dynamodb", "Write Throttles: ", Get(tableMetrics, "WriteThrottleEvents"), 0, ""),
           Value("dynamodb", "Read Capacity: ",
                 Get(tableMetrics, "ConsumedReadCapacityUnits"), 0, " units"),
           Value("dynamodb", "Write Capacity: ",
                 Get(tableMetrics, "ConsumedWriteCapacityUnits"), 0, " units"),
           Value("dynamodb", "DB Errors: ",
                 Plus(Get(tableMetrics, "UserErrors"), Get(tableMetrics, "SystemErrors")), 0, "") >>

RECURSIVE dynamoTables(_, _)
\* for _, tableName := range cfg.Services.DynamoDB.TableNames { if exists { ... } }
dynamoTables(names, dynamoData) ==
    IF names = <<>> THEN <<>>
    ELSE (IF Head(names) \in DOMAIN dynamoData
          THEN << Line("header", "dynamodb", "*DynamoDB* ", escapeMarkdown(Head(names))) >>
               \o dynamoLines(dynamoData[Head(names)])
               \o << Line("blank", "dynamodb", "", <<>>) >>
          ELSE <<>>)
         \o dynamoTables(Tail(names), dynamoData)

rdsHeader(c) ==
    IF c.Services.RDS.ClusterID # <<>> /\ c.Services.RDS.DBInstanceIdentifier # <<>>
    THEN Line("header", "rds", "*RDS* ",
              escapeMarkdown(c.Services.RDS.ClusterID) \o <<" ", "/", " ">>
              \o escapeMarkdown(c.Services.RDS.DBInstanceIdentifier))
    ELSE IF c.Services.RDS.ClusterID # <<>>
    THEN Line("header", "rds", "*RDS Cluster* ", escapeMarkdown(c.Services.RDS.ClusterID))
    ELSE Line("header", "rds", "*RDS Instance* ",
              escapeMarkdown(c.Services.RDS.DBInstanceIdentifier))

rdsSection(c) ==
    << rdsHeader(c), Line("metrics", "rds", "", <<>>), Line("blank", "rds", "", <<>>) >>

wafSection(c) ==
    << Line("header", "waf", "*WAF* ", escapeMarkdown(c.Services.WAF.WebACLName)),
       Line("metrics", "waf", "", <<>>),
       Line("blank", "waf", "", <<>>) >>

lambdaPrefix == <<"/", "a", "w", "s", "/", "l", "a", "m", "b", "d", "a", "/">>

\* the configured log groups that have counts, split on the runtime prefix
lambdaLogs(c, logsMetrics) ==
    {n \in {c.Services.CloudWatchLogs.LogGroupNames[i] :
                i \in 1..Len(c.Services.CloudWatchLogs.LogGroupNames)} :
        n \in DOMAIN logsMetrics /\ Contains(n, lambdaPrefix)}

applicationLogs(c, logsMetrics) ==
    {n \in {c.Services.CloudWatchLogs.LogGroupNames[i] :
                i \in 1..Len(c.Services.CloudWatchLogs.LogGroupNames)} :
        n \in DOMAIN logsMetrics /\ ~Contains(n, lambdaPrefix)}

\* fmt.Sprintf("<LEVEL>: %d\n", logCounts[level])
Count(label, n) ==
    [kind |-> "count", svc |-> "cloudwatchLogs", label |-> label, ident |-> <<>>, count |-> n]

RECURSIVE logGroups(_, _)
\* for logGroup, logData := range m { ... } in the order the map yields
logGroups(order, logsMetrics) ==
    IF order = <<>> THEN <<>>
    ELSE << Line("group", "cloudwatchLogs", ":", escapeMarkdown(Head(order))),
            Count("INFO: ", logsMetrics[Head(order)]["info"]),
            Count("WARN: ", logsMetrics[Head(order)]["warn"]),
            Count("ERROR: ", logsMetrics[Head(order)]["error"]),
            Line("blank", "cloudwatchLogs", "", <<>>) >>
         \o logGroups(Tail(order), logsMetrics)

logsSection(appOrder, lambdaOrder, logsMetrics) ==
    (IF Len(appOrder) > 0
     THEN << Line("header", "cloudwatchLogs", "*APPLICATION*", <<>>) >>
          \o logGroups(appOrder, logsMetrics)
     ELSE <<>>)
    \o
    (IF Len(lambdaOrder) > 0
     THEN << Line("header", "cloudwatchLogs", "*LAMBDA*", <<>>) >>
          \o logGroups(lambdaOrder, logsMetrics)
     ELSE <<>>)

\* the orders in which ranging over a Go map of these keys can yield them
MapOrders(keys) ==
    {o \in [1..Cardinality(keys) -> keys] : \A i, j \in DOMAIN o : o[i] = o[j] => i = j}

\* the Go type of what logic stores under a key: a collector's own result,
\* or the map[string]any logic fills with the results of each resource
typeStored(key) ==
    IF key \in {"cloudwatchLogs", "dynamodb"} THEN "map[string]any" ELSE "map[string]float64"

\* the Go type of a per-resource result inside such a map
typeStoredIn(key) == IF key = "cloudwatchLogs" THEN "map[string]int" ELSE "map[string]float64"

typeAssertedFlat(key) == "map[string]float64"

\* the type of the assertion data.(T) that opens the section of a key
typeAsserted(key) ==
    IF key \in {"cloudwatchLogs", "dynamodb"} THEN "map[string]any" ELSE "map[string]float64"

\* the type asserted for a per-resource value: tableData.(T), logData.(T)
typeAssertedIn(key) == IF key = "cloudwatchLogs" THEN "map[string]int" ELSE "map[string]float64"

\* the configured resources of a multi-resource service
resourceNames(c, key) ==
    IF key = "cloudwatchLogs" THEN c.Services.CloudWatchLogs.LogGroupNames
    ELSE IF key = "dynamodb" THEN c.Services.DynamoDB.TableNames
    ELSE <<>>

\* x.(T) without the comma-ok form panics when the dynamic type is not T
sectionPanics(c, tp, all, svc) ==
    /\ sectionShown(c, tp, all, svc)
    /\ \/ typeStored(svc) # typeAsserted(svc)
       \/ /\ typeStoredIn(svc) # typeAssertedIn(svc)
          /\ \E i \in 1..Len(resourceNames(c, svc)) : resourceNames(c, svc)[i] \in DOMAIN all[svc]

Panic == [panic |-> TRUE]

BuildMessageAsCollected(c, tp, all, appOrder, lambdaOrder) ==
    IF \E svc \in Services : sectionPanics(c, tp, all, svc) THEN Panic
    ELSE
    opening(tp)
    \o Section(c, tp, all, "ec2", ec2Section(c))
    \o Section(c, tp, all, "s3", s3Section(c))
    \o Section(c, tp, all, "alb", albSection(c))
    \o Section(c, tp, all, "cloudfront", cloudFrontSection(c))
    \o Section(c, tp, all, "cloudwatchAgent", cwAgentSection(c))
    \o (IF sectionShown(c, tp, all, "cloudwatchLogs")
        THEN logsSection(appOrder, lambdaOrder, all["cloudwatchLogs"]) ELSE <<>>)
    \o Section(c, tp, all, "waf", wafSection(c))
    \o (IF sectionShown(c, tp, all, "dynamodb")
        THEN dynamoTables(c.Services.DynamoDB.TableNames, all["dynamodb"]) ELSE <<>>)
    \o Section(c, tp, all, "rds", rdsSection(c))
    \o closing(tp)

BuildMessage(c, tp, all, appOrder, lambdaOrder) ==
    IF \E svc \in Services : sectionPanics(c, tp, all, svc) THEN Panic
    ELSE
    opening(tp)
    \o Section(c, tp, all, "ec2", ec2Section(c))
    \o Section(c, tp, all, "cloudwatchAgent", cwAgentSection(c))
    \o Section(c, tp, all, "s3", s3Section(c))
    \o Section(c, tp, all, "alb", albSection(c))
    \o Section(c, tp, all, "cloudfront", cloudFrontSection(c))
    \o (IF sectionShown(c, tp, all, "dynamodb")
        THEN dynamoTables(c.Services.DynamoDB.TableNames, all["dynamodb"]) ELSE <<>>)
    \o Section(c, tp, all, "rds", rdsSection(c))
    \o Section(c, tp, all, "waf", wafSection(c))
    \o (IF sectionShown(c, tp, all, "cloudwatchLogs")
        THEN logsSection(appOrder, lambdaOrder, all["cloudwatchLogs"]) ELSE <<>>)
    \o closing(tp)


(***************************************************************************)
(* Inputs: the embedded configurations and evaluation hours explored.      *)
(***************************************************************************)
Strings(chars, n) == UNION {[1..k -> chars] : k \in 1..n}

ResourceName(i) == Repeat("t", i)
LogGroupName(i) == IF i % 2 = 1 THEN Repeat("g", i) ELSE lambdaPrefix \o Repeat("f", i)

PlainConfig(en, period, dailyHour) ==
    Config(en, period, dailyHour,
           [ec2 |-> <<"i", "1">>, bucket |-> <<"b">>, alb |-> <<"l", "b">>,
            dist |-> <<"E", "1">>, agent |-> <<"i", "1">>,
            groups |-> [i \in 1..MaxResources |-> LogGroupName(i)],
            acl |-> <<"w">>, scope |-> "REGIONAL",
            tables |-> [i \in 1..MaxResources |-> ResourceName(i)],
            cluster |-> <<"c">>, dbInstance |-> <<"d">>])

\* the data point of the period that ends t periods into the window
Datapoint(t) == [Timestamp |-> t, Value |-> 3 * t]

\* the points of some periods of the window, in any order
Series ==
    UNION {{s \in [1..k -> 1..MaxPoints] : \A i, j \in 1..k : s[i] = s[j] => i = j} :
              k \in 0..MaxPoints}

QueryResults ==
    {QueryError} \cup {QueryOutput([i \in DOMAIN s |-> Datapoint(s[i])]) : s \in Series}

PlainResult == QueryOutput(<< Datapoint(1) >>)

Page(n) == [err |-> FALSE, Events |-> n]
PageError == [err |-> TRUE]

\* the pages of one filtered search: a failed page ends the search
Searches ==
    UNION {{p \in [1..k -> {PageError, Page(0), Page(2)}] : \A i \in 1..(k - 1) : ~p[i].err} :
              k \in 1..MaxPages}

PlainSearch == << Page(1) >>

QueryCount(svc) ==
    CASE svc = "ec2" -> Len(ec2Metrics)
      [] svc = "s3" -> Len(storageTypes) + 1
      [] svc = "alb" -> Len(albMetrics)
      [] svc = "cloudfront" -> Len(cloudFrontMetrics)
      [] svc = "cloudwatchAgent" -> Len(memMetrics) + 1
      [] svc = "cloudwatchLogs" -> Len(levels)
      [] svc = "waf" -> Len(wafMetrics)
      [] svc = "dynamodb" -> Len(dynamoMetrics(FALSE))
      [] svc = "rds" -> Len(instanceMetrics) + Len(clusterMetrics)

Described(mode, count) ==
    [err |-> FALSE, Table |-> << [BillingModeSummary |-> mode, ItemCount |-> count] >>]

\* one listed series: its dimensions, each value behind a pointer
SeriesOf(dimensions) == [Dimensions |-> dimensions]

ListOutput(metrics) == [err |-> FALSE, Metrics |-> metrics]

\* the identifier of the load balancer of that name: app/<name>/<id>
LoadBalancer(name, id) == appPrefix \o name \o <<"/", id>>

\* series of the load-balancer namespace: of the configured balancer, of
\* one whose name extends its name, and of an unrelated one
LoadBalancerSeries(albName) ==
    { SeriesOf(<< Dimension("TargetGroup", << <<"t", "g", "/">> \o albName >>),
                Dimension("LoadBalancer", << LoadBalancer(albName, "1") >>) >>),
      SeriesOf(<< Dimension("LoadBalancer", << LoadBalancer(albName \o <<"2">>, "2") >>) >>),
      SeriesOf(<< Dimension("TargetGroup", << <<"t", "g", "/">> \o albName >>),
                Dimension("LoadBalancer", << LoadBalancer(<<"x">>, "3") >>) >>) }

\* series of the agent's disk metric: with both disk dimensions, with one
\* of them, with an unset value, and of another instance
DiskSeries(instanceID) ==
    { SeriesOf(<< Dimension("InstanceId", << instanceID >>), Dimension("path", << "/" >>),
                Dimension("device", << "xvda1" >>), Dimension("fstype", << "ext4" >>) >>),
      SeriesOf(<< Dimension("InstanceId", << instanceID >>), Dimension("path", << "/" >>),
                Dimension("device", << "nvme0n1p1" >>) >>),
      SeriesOf(<< Dimension("InstanceId", << instanceID >>), Dimension("path", << "/" >>),
                Dimension("device", Nil), Dimension("fstype", << "xfs" >>) >>),
      SeriesOf(<< Dimension("InstanceId", << instanceID \o <<"9">> >>), Dimension("path", << "/" >>),
                Dimension("device", << "sdb1" >>), Dimension("fstype", << "vfat" >>) >>) }

\* the listings of at most MaxSeries of these series, in any order; a series
\* is one combination of dimensions and is listed once
Listings(series) ==
    UNION {{l \in [1..k -> series] : \A i, j \in 1..k : l[i] = l[j] => i = j} :
              k \in 0..MaxSeries}

\* the answers to a collector's lookup calls when they succeed as expected
PlainLookup(svc) ==
    CASE svc = "alb" ->
            ListOutput(<< SeriesOf(<< Dimension("LoadBalancer",
                                              << LoadBalancer(cfg.Services.ALB.ALBName, "1") >>) >>) >>)
      [] svc = "cloudwatchAgent" ->
            ListOutput(<< SeriesOf(<< Dimension("InstanceId",
                                              << cfg.Services.CloudWatchAgent.InstanceID >>),
                                    Dimension("path", << "/" >>),
                                    Dimension("device", << "xvda1" >>),
                                    Dimension("fstype", << "ext4" >>) >>) >>)
      [] svc = "waf" -> [acl |-> [err |-> FALSE],
                         list |-> [err |-> FALSE, ResourceArns |-> 1]]
      [] svc = "dynamodb" -> Described(<<"PROVISIONED">>, <<7>>)
      [] OTHER -> [err |-> FALSE]

DownLookup(svc) ==
    CASE svc = "waf" -> [acl |-> [err |-> TRUE], list |-> [err |-> TRUE]]
      [] OTHER -> [err |-> TRUE]

Lookups(svc) ==
    CASE svc = "alb" ->
            {[err |-> TRUE]}
            \cup {ListOutput(l) : l \in Listings(LoadBalancerSeries(cfg.Services.ALB.ALBName))}
      [] svc = "waf" ->
            {[acl |-> a, list |-> l] :
                a \in {[err |-> TRUE], [err |-> FALSE]},
                l \in {[err |-> TRUE]}
                       \cup {[err |-> FALSE, ResourceArns |-> n] : n \in 0..MaxArns}}
      [] svc = "dynamodb" ->
            {QueryError, [err |-> FALSE, Table |-> Nil]}
            \cup {Described(mode, count) :
                     mode \in {Nil, <<"PROVISIONED">>, <<"PAY_PER_REQUEST">>},
                     count \in {Nil, <<7>>}}
      [] svc = "cloudwatchAgent" ->
            {[err |-> TRUE]}
            \cup {ListOutput(l) :
                      l \in Listings(DiskSeries(cfg.Services.CloudWatchAgent.InstanceID))}
      [] OTHER -> {[err |-> FALSE]}

PlainAnswer(svc) == IF svc = "cloudwatchLogs" THEN PlainSearch ELSE PlainResult
DownAnswer(svc) == IF svc = "cloudwatchLogs" THEN << PageError >> ELSE QueryError

PlainReply(svc) ==
    [pre |-> PlainLookup(svc), q |-> [i \in 1..QueryCount(svc) |-> PlainAnswer(svc)]]

DownReply(svc) ==
    [pre |-> DownLookup(svc), q |-> [i \in 1..QueryCount(svc) |-> DownAnswer(svc)]]

\* the collectors that return an error when a backend call fails
Fallible == {"ec2", "alb", "cloudfront", "cloudwatchAgent", "waf", "dynamodb"}

\* what the backend can answer to one collector call.  A backend followed
\* call by call answers every lookup in every way and one query of the
\* collector in every way; otherwise it is up or, for a collector that can
\* fail, down as a whole.
Replies(svc) ==
    IF svc \in backend
    THEN {[pre |-> p, q |-> [i \in 1..QueryCount(svc) |-> IF i = k THEN a ELSE PlainAnswer(svc)]] :
             p \in Lookups(svc), k \in 1..QueryCount(svc),
             a \in IF svc = "cloudwatchLogs" THEN Searches ELSE QueryResults}
         \cup {DownReply(svc)}
    ELSE {PlainReply(svc)} \cup (IF svc \in Fallible THEN {DownReply(svc)} ELSE {})

NotYet == [unset |-> TRUE]

Start(c, hour, followed) ==
    /\ cfg = c
    /\ nowHour = hour
    /\ backend = followed
    /\ pc = "load"
    /\ timeParams = NotYet
    /\ replies = EmptyMap
    /\ queries = EmptyMap
    /\ allMetrics = EmptyMap
    /\ invoked = {}
    /\ errors = {}
    /\ message = NotYet
    /\ sends = 0
    /\ sendErr = "unset"
    /\ result = "running"

\* every combination of enabled services, routine, daily and skipped cycles
Init ==
    \E en \in SUBSET Services, period \in {0, 1}, hour \in {8, 9} :
        Start(PlainConfig(en, period, 9), hour, {})

\* lookback hours: invalid, disabled, ordinary, and either side of the largest
\* count of hours an int64 of nanoseconds holds (2562047)
Periods == {-1, 0, 1, 23, 24, 25, 2562047, 2562048}

\* every lookback and hour setting, validated or not, around the clock
InitTime ==
    \E period \in Periods, dailyHour \in -1..24, hour \in 0..23,
       en \in {{}, {"s3", "cloudwatchLogs", "rds"}} :
        Start(PlainConfig(en, period, dailyHour), hour, {})

IdChars == {"a", "_", "*"}
\* WAF scope, RDS cluster and instance configured, load balancer given by its
\* bare name, and how the second log group relates to the runtime prefix
Shapes ==
    { <<"", TRUE, TRUE, TRUE, "apart">>, <<"REGIONAL", TRUE, FALSE, FALSE, "prefixed">>,
      <<"CLOUDFRONT", FALSE, TRUE, TRUE, "embedding">> }

\* identifiers with and without markdown characters, one service at a time
InitNames ==
    \E id \in Strings(IdChars, MaxIdLen), id2 \in Strings(IdChars, MaxIdLen),
       svc \in Services, shape \in Shapes :
        Start(Config({svc}, 1, 9,
                     [ec2 |-> id, bucket |-> id, alb |-> id, dist |-> id, agent |-> id,
                      groups |-> [i \in 1..MaxResources |->
                                     IF i = 1 THEN id
                                     ELSE IF shape[5] = "apart" THEN id2
                                     ELSE IF shape[5] = "prefixed" THEN lambdaPrefix \o id2
                                     ELSE <<"x">> \o lambdaPrefix \o id2],
                      acl |-> id, scope |-> shape[1],
                      tables |-> [i \in 1..MaxResources |-> IF i = 1 THEN id ELSE id2],
                      cluster |-> IF shape[2] THEN id ELSE <<>>,
                      dbInstance |-> IF shape[3] THEN id2 ELSE <<>>]),
              9, {})

\* every set of enabled services in a routine and in a daily cycle, the log
\* groups and the tables configured in another order than their names sort
InitReport ==
    \E en \in SUBSET Services, hour \in {8, 9} :
        Start(Config(en, 1, 9,
                     [ec2 |-> <<"i", "1">>, bucket |-> <<"b">>, alb |-> <<"l", "b">>,
                      dist |-> <<"E", "1">>, agent |-> <<"i", "1">>,
                      groups |-> [i \in 1..MaxResources |->
                                     LogGroupName(MaxResources + 1 - i)],
                      acl |-> <<"w">>, scope |-> "REGIONAL",
                      tables |-> [i \in 1..MaxResources |->
                                     ResourceName(MaxResources + 1 - i)],
                      cluster |-> <<"c">>, dbInstance |-> <<"d">>]),
              hour, {})

\* one service at a time with its backend followed call by call; the shape
\* varies for the services that read it
InitMetrics ==
    \E svc \in Services, hour \in {8, 9}, lookback \in {23, 25} :
      \E shape \in IF svc \in {"alb", "waf", "rds"} THEN Shapes
                    ELSE {s \in Shapes : s[1] = "REGIONAL"} :
        Start(Config({svc}, lookback, 9,
                     [ec2 |-> <<"i", "1">>, bucket |-> <<"b">>,
                      alb |-> IF shape[4] THEN <<"l", "b">> ELSE appPrefix \o <<"l", "b">>,
                      dist |-> <<"E", "1">>, agent |-> <<"i", "1">>,
                      groups |-> << LogGroupName(1), LogGroupName(2) >>,
                      acl |-> <<"w">>, scope |-> shape[1],
                      tables |-> << ResourceName(1) >>,
                      cluster |-> IF shape[2] THEN <<"c">> ELSE <<>>,
                      dbInstance |-> IF shape[3] THEN <<"d">> ELSE <<>>]),
              hour, {svc})

(***************************************************************************)
(* The cycle (main.go logic), one action per step.                         *)
(***************************************************************************)
Return(r) == pc' = "done" /\ result' = r

\* config.LoadEmbeddedConfig
LoadEmbeddedConfig ==
    /\ pc = "load"
    /\ IF validateConfig(cfg) THEN pc' = "window" /\ UNCHANGED result
       ELSE Return("error")
    /\ UNCHANGED <<cfg, nowHour, backend, timeParams, replies, queries, allMetrics, invoked,
                   errors, message, sends, sendErr>>

\* timeParams, err := appConfig.GetTimeParams(); if timeParams == nil { return nil }
TimeWindow ==
    /\ pc = "window"
    /\ timeParams' = GetTimeParams(cfg, nowHour)
    /\ IF timeParams' = NoWindow
       THEN pc' = logicOnSkip.pc /\ result' = logicOnSkip.result
       ELSE pc' = "setup" /\ UNCHANGED result
    /\ UNCHANGED <<cfg, nowHour, backend, replies, queries, allMetrics, invoked, errors,
                   message, sends, sendErr>>

\* SDK configuration for both regions, clients, account id
Setup ==
    /\ pc = "setup"
    /\ \E ok \in BOOLEAN :
          IF ok THEN pc' = "ec2" /\ UNCHANGED result ELSE Return("error")
    /\ UNCHANGED <<cfg, nowHour, backend, timeParams, replies, queries, allMetrics, invoked,
                   errors, message, sends, sendErr>>

onCollectorErrorReturn(next) == [pc |-> "done", result |-> "error"]

\* if err != nil { utils.Logger.Error(...) } else { ... }: the cycle goes on
onCollectorError(next) == [pc |-> next, result |-> "running"]

\* where the cycle stands after a collector block
Continue(failed, next) ==
    IF failed
    THEN pc' = onCollectorError(next).pc /\ result' = onCollectorError(next).result
    ELSE pc' = next /\ UNCHANGED result

\* the block of a service that is not enabled
Idle(next) ==
    pc' = next /\ UNCHANGED <<replies, queries, allMetrics, invoked, errors, result>>

\* one flat collector call and the fold of its result
Collected(key, id, reply, r, issued, next) ==
    /\ Continue(r.err, next)
    /\ replies' = (<<key, id>> :> reply) @@ replies
    /\ queries' = IF key \in backend THEN (<<key, id>> :> issued) @@ queries ELSE queries
    /\ invoked' = invoked \cup {<<key, id>>}
    /\ errors' = IF r.err THEN errors \cup {<<key, id>>} ELSE errors
    /\ allMetrics' = storeResult(allMetrics, key, r)

\* the loop over the resources of a multi-resource service and the final fold
CollectedEach(key, names, each, results, issued, next) ==
    /\ Continue(\E i \in 1..Len(names) : results[i].err, next)
    /\ replies' = [e \in {<<key, names[i]>> : i \in 1..Len(names)} |->
                      each[LastIndex(names, 1..Len(names), e[2])]] @@ replies
    /\ queries' = IF key \in backend
                  THEN [e \in {<<key, names[i]>> : i \in 1..Len(names)} |->
                           issued[LastIndex(names, 1..Len(names), e[2])]] @@ queries
                  ELSE queries
    /\ invoked' = invoked \cup {<<key, names[i]>> : i \in 1..Len(names)}
    /\ errors' = errors \cup {<<key, names[i]>> : i \in {j \in 1..Len(names) : results[j].err}}
    /\ allMetrics' = storeIfAny(allMetrics, key, collectResources(names, results))

Step == UNCHANGED <<cfg, nowHour, backend, timeParams, message, sends, sendErr>>

CollectEC2 ==
    /\ pc = "ec2"
    /\ IF cfg.Services.EC2.Enabled
       THEN \E reply \in Replies("ec2") :
               Collected("ec2", cfg.Services.EC2.InstanceID, reply, EC2Metrics(reply),
                         EC2Queries(cfg.Services.EC2.InstanceID, timeParams, reply), "s3")
       ELSE Idle("s3")
    /\ Step

CollectS3 ==
    /\ pc = "s3"
    /\ IF s3Gate(cfg, timeParams)
       THEN \E reply \in Replies("s3") :
               Collected("s3", cfg.Services.S3.BucketName, reply, S3Metrics(reply),
                         S3Queries(cfg.Services.S3.BucketName, timeParams, reply), "alb")
       ELSE Idle("alb")
    /\ Step

CollectALB ==
    /\ pc = "alb"
    /\ IF cfg.Services.ALB.Enabled
       THEN \E reply \in Replies("alb") :
               Collected("alb", cfg.Services.ALB.ALBName, reply,
                         ALBMetrics(cfg.Services.ALB.ALBName, reply),
                         ALBQueries(cfg.Services.ALB.ALBName, timeParams, reply), "cloudfront")
       ELSE Idle("cloudfront")
    /\ Step

CollectCloudFront ==
    /\ pc = "cloudfront"
    /\ IF cfg.Services.CloudFront.Enabled
       THEN \E reply \in Replies("cloudfront") :
               Collected("cloudfront", cfg.Services.CloudFront.DistributionID, reply,
                         CloudFrontMetrics(reply),
                         CloudFrontQueries(cfg.Services.CloudFront.DistributionID, timeParams,
                                           reply),
                         "cloudwatchAgent")
       ELSE Idle("cloudwatchAgent")
    /\ Step

CollectCWAgent ==
    /\ pc = "cloudwatchAgent"
    /\ IF cfg.Services.CloudWatchAgent.Enabled
       THEN \E reply \in Replies("cloudwatchAgent") :
               Collected("cloudwatchAgent", cfg.Services.CloudWatchAgent.InstanceID, reply,
                         CWAgentMetrics(reply),
                         CWAgentQueries(cfg.Services.CloudWatchAgent.InstanceID, timeParams,
                                        reply),
                         "cloudwatchLogs")
       ELSE Idle("cloudwatchLogs")
    /\ Step

CollectCWLogs ==
    /\ pc = "cloudwatchLogs"
    /\ IF cfg.Services.CloudWatchLogs.Enabled
       THEN LET names == cfg.Services.CloudWatchLogs.LogGroupNames
            IN \E each \in [1..Len(names) -> Replies("cloudwatchLogs")] :
                  CollectedEach("cloudwatchLogs", names, each,
                                [i \in 1..Len(names) |-> CWLogs(each[i])],
                                [i \in 1..Len(names) |-> <<>>], "waf")
       ELSE Idle("waf")
    /\ Step

CollectWAFAlways ==
    /\ pc = "waf"
    /\ \E reply \in Replies("waf") :
          Collected("waf", cfg.Services.WAF.WebACLName, reply,
                    WAFMetrics(wafScope(cfg), reply),
                    WAFQueries(cfg.Services.WAF.WebACLName, wafScope(cfg), timeParams,
                               reply),
                    "dynamodb")
    /\ Step

CollectWAF ==
    /\ pc = "waf"
    /\ IF cfg.Services.WAF.Enabled
       THEN \E reply \in Replies("waf") :
               Collected("waf", cfg.Services.WAF.WebACLName, reply,
                         WAFMetrics(wafScope(cfg), reply),
                         WAFQueries(cfg.Services.WAF.WebACLName, wafScope(cfg), timeParams,
                                    reply),
                         "dynamodb")
       ELSE Idle("dynamodb")
    /\ Step

CollectDynamoDB ==
    /\ pc = "dynamodb"
    /\ IF cfg.Services.DynamoDB.Enabled
       THEN LET names == cfg.Services.DynamoDB.TableNames
            IN \E each \in [1..Len(names) -> Replies("dynamodb")] :
                  CollectedEach("dynamodb", names, each,
                                [i \in 1..Len(names) |-> DynamoDBMetrics(each[i])],
                                [i \in 1..Len(names) |->
                                    DynamoDBQueries(names[i], timeParams, each[i])],
                                "rds")
       ELSE Idle("rds")
    /\ Step

CollectRDS ==
    /\ pc = "rds"
    /\ IF cfg.Services.RDS.Enabled
       THEN \E reply \in Replies("rds") :
               Collected("rds", cfg.Services.RDS.ClusterID \o cfg.Services.RDS.DBInstanceIdentifier,
                         reply,
                         RDSMetrics(cfg.Services.RDS.ClusterID,
                                    cfg.Services.RDS.DBInstanceIdentifier, reply),
                         RDSQueries(cfg.Services.RDS.ClusterID,
                                    cfg.Services.RDS.DBInstanceIdentifier, timeParams, reply),
                         "build")
       ELSE Idle("build")
    /\ Step

\* message := utils.BuildMessage(appConfig, timeParams, allMetrics)
Build ==
    /\ pc = "build"
    /\ LET logs == IF "cloudwatchLogs" \in DOMAIN allMetrics
                   THEN allMetrics["cloudwatchLogs"] ELSE EmptyMap
       IN \E appOrder \in MapOrders(applicationLogs(cfg, logs)),
             lambdaOrder \in MapOrders(lambdaLogs(cfg, logs)) :
               message' = BuildMessage(cfg, timeParams, allMetrics, appOrder, lambdaOrder)
    /\ IF message' = Panic THEN Return("panic") ELSE pc' = "send" /\ UNCHANGED result
    /\ UNCHANGED <<cfg, nowHour, backend, timeParams, replies, queries, allMetrics, invoked,
                   errors, sends, sendErr>>

onSendErrorRetry == [pc |-> "send", result |-> "running"]

\* if err != nil { utils.Logger.Error(...); return err }
onSendError == [pc |-> "done", result |-> "error"]

\* err = utils.SendToTelegram(...); one attempt, its error returned
Send ==
    /\ pc = "send"
    /\ sends' = sends + 1
    /\ \E ok \in BOOLEAN :
          /\ sendErr' = IF ok THEN "nil" ELSE "error"
          /\ IF ok THEN Return("nil")
             ELSE pc' = onSendError.pc /\ result' = onSendError.result
    /\ UNCHANGED <<cfg, nowHour, backend, timeParams, replies, queries, allMetrics, invoked,
                   errors, message>>

Next ==
    \/ LoadEmbeddedConfig
    \/ TimeWindow
    \/ Setup
    \/ CollectEC2
    \/ CollectS3
    \/ CollectALB
    \/ CollectCloudFront
    \/ CollectCWAgent
    \/ CollectCWLogs
    \/ CollectWAF
    \/ CollectDynamoDB
    \/ CollectRDS
    \/ Build
    \/ Send

Spec == Init /\ [][Next]_vars
SpecTime == InitTime /\ [][Next]_vars
SpecNames == InitNames /\ [][Next]_vars
SpecMetrics == InitMetrics /\ [][Next]_vars
SpecReport == InitReport /\ [][Next]_vars


(***************************************************************************)
(* Properties.                                                             *)
(***************************************************************************)
PcOrder == << "load", "window", "setup", "ec2", "s3", "alb", "cloudfront",
              "cloudwatchAgent", "cloudwatchLogs", "waf", "dynamodb", "rds",
              "build", "send", "done" >>

Pos(p) == CHOOSE i \in 1..Len(PcOrder) : PcOrder[i] = p

HasWindow == timeParams # NotYet /\ timeParams # NoWindow

\* the collection phase is over for the step named key
Past(key) == HasWindow /\ Pos(pc) > Pos(key) /\ (pc = "done" => message # NotYet)

Built == message # NotYet

HasBlock(svc) == \E i \in 1..Len(message) : message[i].svc = svc

Resources(key) == {e[2] : e \in {x \in invoked : x[1] = key}}

\* C1: every collector that ran and succeeded has its key in the
\* AggregatedReport (for a multi-resource service, its resource under the key),
\* whatever other collectors failed, and by the time the report is assembled
\* every enabled service's collector has run (S3 in daily cycles).
C1_FailureIsolation ==
    /\ \A e \in invoked \ errors :
          /\ e[1] \in DOMAIN allMetrics
          /\ e[1] \in {"cloudwatchLogs", "dynamodb"} => e[2] \in DOMAIN allMetrics[e[1]]
    /\ Built =>
          \A svc \in Services :
             Enabled(cfg, svc) /\ (svc = "s3" => timeParams.IsDailyReport)
                => \E e \in invoked : e[1] = svc

\* the load-balancer collector failed; compute and storage are in the report
C1_Witness ==
    /\ Built
    /\ \E e \in errors : e[1] = "alb"
    /\ {"ec2", "s3"} \subseteq DOMAIN allMetrics
    /\ HasBlock("ec2") /\ HasBlock("s3")

\* C2: GetTimeParams returns no window exactly when defaultPeriod is 0 and the
\* current local hour differs from dailyReportHour.
C2_SkipExactly ==
    timeParams # NotYet =>
        ((timeParams = NoWindow) <=>
            (cfg.Global.Monitoring.DefaultPeriod = 0
             /\ nowHour # cfg.Global.Monitoring.DailyReportHour))

C2_Witness ==
    /\ timeParams = NoWindow
    /\ cfg.Global.Monitoring.DefaultPeriod = 0
    /\ nowHour # cfg.Global.Monitoring.DailyReportHour

\* C3: when the policy signals skip, the cycle is over with a nil error, no
\* collector invoked, no report built and no delivery attempted.
C3_SkipEndsCycle ==
    timeParams = NoWindow =>
        /\ pc = "done" /\ result = "nil"
        /\ invoked = {} /\ allMetrics = EmptyMap
        /\ message = NotYet
        /\ sends = 0

C3_Witness ==
    /\ timeParams = NoWindow
    /\ pc = "done"
    /\ \A svc \in Services : Enabled(cfg, svc)

\* C4: at the daily-report hour a window is returned with IsDailyReport true
\* for every lookback including 0, and a returned window has IsDailyReport
\* true only at that hour.
C4_DailyFlag ==
    timeParams # NotYet =>
        /\ nowHour = cfg.Global.Monitoring.DailyReportHour
              => timeParams # NoWindow /\ timeParams.IsDailyReport
        /\ timeParams # NoWindow
              => (timeParams.IsDailyReport
                    <=> nowHour = cfg.Global.Monitoring.DailyReportHour)

C4_Witness ==
    /\ HasWindow
    /\ cfg.Global.Monitoring.DefaultPeriod = 0
    /\ timeParams.IsDailyReport

\* the instant n whole hours before the evaluation instant, computed exactly
HoursBeforeNow(n) ==
    AddW(Now, NegW(MulW(FromNat(n, TimeBytes), Hour \o <<0>>)))

\* C5: the window start is now minus 24 hours in a daily report and now minus
\* lookback hours in a routine report.
C5_WindowStart ==
    HasWindow =>
        timeParams.StartTime =
            IF timeParams.IsDailyReport
            THEN HoursBeforeNow(24)
            ELSE HoursBeforeNow(cfg.Global.Monitoring.DefaultPeriod)

\* C6: a returned window has StartTime before EndTime and EndTime equal to the
\* evaluation instant, for every validated configuration.
C6_WindowOrdered ==
    HasWindow =>
        /\ TimeBefore(timeParams.StartTime, timeParams.EndTime)
        /\ timeParams.EndTime = Now

\* C7: the S3 collector runs, the "s3" key exists and an S3 block is rendered
\* only in a daily-report cycle.
C7_S3DailyOnly ==
    (\/ \E e \in invoked : e[1] = "s3"
     \/ "s3" \in DOMAIN allMetrics
     \/ (Built /\ HasBlock("s3")))
        => HasWindow /\ timeParams.IsDailyReport

\* a routine cycle with S3 enabled was assembled without S3
C7_Witness ==
    /\ Built
    /\ cfg.Services.S3.Enabled
    /\ ~timeParams.IsDailyReport
    /\ "s3" \notin DOMAIN allMetrics

\* C8: each configured log group and table is collected on its own: every
\* resource is tried, a resource that succeeded is under the service key
\* whatever the others did, and when all of them failed the key is absent and
\* the cycle still assembles and delivers a report.
C8_ResourcesIndependent ==
    \A key \in {"cloudwatchLogs", "dynamodb"} :
       LET names == IF key = "dynamodb" THEN cfg.Services.DynamoDB.TableNames
                    ELSE cfg.Services.CloudWatchLogs.LogGroupNames
           all == {names[i] : i \in 1..Len(names)}
       IN Past(key) /\ Enabled(cfg, key) =>
             /\ Resources(key) = all
             /\ \A n \in all :
                   <<key, n>> \notin errors
                      => key \in DOMAIN allMetrics /\ n \in DOMAIN allMetrics[key]
             /\ (\A n \in all : <<key, n>> \in errors)
                   => /\ key \notin DOMAIN allMetrics
                      /\ Built => ~HasBlock(key)
                      /\ pc = "done" => Built /\ sends = 1

\* one table failed, another is in the report that was delivered
C8_Witness ==
    /\ pc = "done" /\ sends = 1
    /\ \E e \in errors : e[1] = "dynamodb"
    /\ "dynamodb" \in DOMAIN allMetrics
    /\ HasBlock("dynamodb")

Unescaped(ident) ==
    \E i \in 1..Len(ident) :
        ident[i] \in {"_", "*"} /\ (i = 1 \/ ident[i - 1] # "\\")

\* C10: no '_' or '*' of an interpolated configured identifier is in the
\* report without a backslash before it.
C10_IdentifiersEscaped ==
    Built => \A i \in 1..Len(message) : ~Unescaped(message[i].ident)

\* the lines of the report that are not blank
Printed == SelectSeq(message, LAMBDA l : l.kind # "blank")

\* C11: apart from blank lines, a report opens with one delimiter line
\* followed by the end of the window and closes with a delimiter line; both
\* delimiters are the '=' line in a daily report and the '-' line otherwise,
\* and no other line of the report is a delimiter.
C11_Delimiters ==
    Built =>
        LET style == IF timeParams.IsDailyReport THEN dailySeparator ELSE scheduleSeparator
            printed == Printed
            last == Len(printed)
        IN /\ message[1].kind = "blank"
           /\ printed[1].kind = "separator" /\ printed[1].label = style
           /\ printed[2].kind = "time" /\ printed[2].at = timeParams.EndTime
           /\ printed[last].kind = "separator" /\ printed[last].label = style
           /\ message[Len(message)] = printed[last]
           /\ {i \in 1..last : printed[i].kind = "separator"} = {1, last}

\* a daily report with service blocks between its two '=' delimiters
C11_Witness ==
    /\ Built
    /\ timeParams.IsDailyReport
    /\ HasBlock("s3") /\ HasBlock("rds")
    /\ message[Len(message)].label = dailySeparator

\* the MetricSet a collector that succeeded left in the AggregatedReport
MetricSetOf(e) ==
    IF e[1] \in {"cloudwatchLogs", "dynamodb"} THEN allMetrics[e[1]][e[2]] ELSE allMetrics[e[1]]

\* the key under which a collector reports its i-th query
ListedKey(svc, i) ==
    CASE svc = "ec2" -> ec2Key(ec2Metrics[i])
      [] svc = "s3" -> IF i <= Len(storageTypes) THEN "BucketSizeMB" ELSE "NumberOfObjects"
      [] svc = "alb" -> albMetrics[i].Name
      [] svc = "cloudfront" -> cloudFrontMetrics[i].Name
      [] svc = "cloudwatchAgent" ->
            IF i <= Len(memMetrics) THEN "mem_used_percent_" \o memMetrics[i]
            ELSE "disk_used_percent"
      [] svc = "cloudwatchLogs" -> levels[i]
      [] svc = "waf" -> wafMetrics[i].Name
      [] svc = "dynamodb" -> dynamoMetrics(FALSE)[i].Name
      [] svc = "rds" ->
            IF i <= Len(instanceMetrics) THEN instanceKey(instanceMetrics[i])
            ELSE "Cluster_" \o clusterMetrics[i - Len(instanceMetrics)].Name

\* the i-th query is on the collector's list for this configuration
Listed(e, i) ==
    /\ i \in 1..QueryCount(e[1])
    /\ e[1] = "rds" =>
          IF i <= Len(instanceMetrics) THEN cfg.Services.RDS.DBInstanceIdentifier # <<>>
          ELSE cfg.Services.RDS.ClusterID # <<>>

\* one of the two metrics a table under on-demand billing does not have
OnDemandOnly(e, i) ==
    /\ e[1] = "dynamodb"
    /\ onDemandOf(replies[e].pre)
    /\ ListedKey(e[1], i) \in {"RequestCount", "SuccessfulRequestLatency"}

\* the query was answered without an error and without data
NoData(e, i) ==
    LET a == replies[e].q[i]
    IN IF e[1] = "cloudwatchLogs"
       THEN (\A j \in 1..Len(a) : ~a[j].err /\ a[j].Events = 0)
       ELSE ~a.err /\ a.Datapoints = <<>>

QueryFailed(e, i) ==
    LET a == replies[e].q[i]
    IN IF e[1] = "cloudwatchLogs" THEN \E j \in 1..Len(a) : a[j].err ELSE a.err

ZeroOf(svc) == IF svc = "cloudwatchLogs" THEN 0 ELSE Zero

\* the value a sum over storage types holds is zero only if every type is
SingleQuery(e, i) == ~(e[1] = "s3" /\ i <= Len(storageTypes))

\* C12 as stated: in the MetricSet of a collector that succeeded every metric
\* of its list is present, with value 0 when its query returned no data point,
\* but for RequestCount and SuccessfulRequestLatency of an on-demand table.
C12_NoMetricAbsent ==
    \A e \in invoked \ errors :
       \A i \in 1..QueryCount(e[1]) :
          Listed(e, i) /\ ~OnDemandOnly(e, i) =>
             /\ ListedKey(e[1], i) \in DOMAIN MetricSetOf(e)
             /\ NoData(e, i) /\ SingleQuery(e, i)
                   => MetricSetOf(e)[ListedKey(e[1], i)] = ZeroOf(e[1])

\* C12 amended: in the MetricSet of a collector that succeeded, a metric whose
\* query returned no data point is present with value 0; a metric of the list
\* is absent exactly when its query failed in the RDS or the WAF collector, or
\* when it is RequestCount or SuccessfulRequestLatency of an on-demand table.
C12_AbsentOnlyAfterFailedQuery ==
    \A e \in invoked \ errors :
       \A i \in 1..QueryCount(e[1]) :
          Listed(e, i) =>
             /\ ListedKey(e[1], i) \notin DOMAIN MetricSetOf(e)
                   <=> \/ e[1] \in {"rds", "waf"} /\ QueryFailed(e, i)
                       \/ OnDemandOnly(e, i)
             /\ NoData(e, i) /\ SingleQuery(e, i) /\ ~OnDemandOnly(e, i)
                   => /\ ListedKey(e[1], i) \in DOMAIN MetricSetOf(e)
                      /\ MetricSetOf(e)[ListedKey(e[1], i)] = ZeroOf(e[1])

\* the compute collector got a value for the CPU average and no data point
\* for NetworkIn, which it reports as 0
C12_Witness ==
    \E e \in invoked \ errors :
       /\ e[1] = "ec2"
       /\ NoData(e, 4)
       /\ allMetrics["ec2"]["NetworkIn"] = Zero
       /\ allMetrics["ec2"]["CPUUtilization_Average"] # Zero

\* what a collector returns for a reply
Collect(svc, reply) ==
    CASE svc = "ec2" -> EC2Metrics(reply)
      [] svc = "s3" -> S3Metrics(reply)
      [] svc = "alb" -> ALBMetrics(cfg.Services.ALB.ALBName, reply)
      [] svc = "cloudfront" -> CloudFrontMetrics(reply)
      [] svc = "cloudwatchAgent" -> CWAgentMetrics(reply)
      [] svc = "cloudwatchLogs" -> CWLogs(reply)
      [] svc = "waf" -> WAFMetrics(wafScope(cfg), reply)
      [] svc = "dynamodb" -> DynamoDBMetrics(reply)
      [] svc = "rds" -> RDSMetrics(cfg.Services.RDS.ClusterID,
                                   cfg.Services.RDS.DBInstanceIdentifier, reply)

\* the reply with the i-th answer cut down to its point of latest timestamp
OnlyLatest(reply, i) ==
    LET points == reply.q[i].Datapoints
        latest == CHOOSE p \in {points[j] : j \in 1..Len(points)} :
                     \A j \in 1..Len(points) : points[j].Timestamp <= p.Timestamp
    IN [reply EXCEPT !.q[i] = QueryOutput(<< latest >>)]

\* C13: when a query returns more than one data point, every collector but
\* CloudFront reports what it would report had the backend returned the point
\* of latest timestamp alone, in whatever order the points came.
C13_LatestPointReported ==
    \A e \in invoked \ errors :
       \A i \in 1..QueryCount(e[1]) :
          /\ e[1] \notin {"cloudfront", "cloudwatchLogs"}
          /\ Listed(e, i) /\ ~OnDemandOnly(e, i)
          /\ ~replies[e].q[i].err
          /\ Len(replies[e].q[i].Datapoints) > 1
          => MetricSetOf(e) = Collect(e[1], OnlyLatest(replies[e], i)).metrics

\* C14: a table's MetricSet holds RequestCount and SuccessfulRequestLatency
\* exactly when its described billing mode is not on-demand, and their
\* queries are made only then; ItemCount is always there and is the count
\* DescribeTable gave (0 when it gave none).
C14_BillingModeMetrics ==
    \A e \in invoked :
       e[1] = "dynamodb" =>
          LET out == replies[e].pre
              made == IF ~out.err /\ onDemandOf(out)
                      THEN Len(dynamoMetrics(FALSE)) - 2 ELSE Len(dynamoMetrics(FALSE))
          IN /\ e \in errors <=> (out.err \/ \E i \in 1..made : replies[e].q[i].err)
             /\ e \notin errors =>
                   /\ {"RequestCount", "SuccessfulRequestLatency"} \cap DOMAIN MetricSetOf(e)
                         = IF onDemandOf(out) THEN {}
                           ELSE {"RequestCount", "SuccessfulRequestLatency"}
                   /\ "ItemCount" \in DOMAIN MetricSetOf(e)
                   /\ MetricSetOf(e)["ItemCount"] =
                         IF out.Table # Nil /\ out.Table[1].ItemCount # Nil
                         THEN Float(out.Table[1].ItemCount[1]) ELSE Zero

\* an on-demand table was collected although the backend failed the
\* RequestCount query it would have made for a provisioned table
C14_Witness ==
    \E e \in invoked \ errors :
       /\ e[1] = "dynamodb"
       /\ onDemandOf(replies[e].pre)
       /\ replies[e].q[7].err
       /\ "RequestCount" \notin DOMAIN MetricSetOf(e)
       /\ MetricSetOf(e)["ItemCount"] = Float(7)

\* the labels of the lines of the DynamoDB block of the report
DynamoLabels == {message[i].label : i \in {j \in 1..Len(message) : message[j].svc = "dynamodb"}}

\* the one table of the configuration is in the report under on-demand billing
OnDemandRendered ==
    /\ Built
    /\ HasBlock("dynamodb")
    /\ \E e \in invoked \ errors : e[1] = "dynamodb" /\ onDemandOf(replies[e].pre)

\* C15 as stated: the block of an on-demand table shows 'Total Requests: N/A
\* (On-Demand)', the item count and both throttle counts, and no latency line.
C15_NoLatencyLine ==
    OnDemandRendered =>
        /\ "Total Requests: N/A (On-Demand)" \in DynamoLabels
        /\ {"Items: ", "Read Throttles: ", "Write Throttles: "} \subseteq DynamoLabels
        /\ {"Latency: ", "Latency: N/A"} \cap DynamoLabels = {}

\* C15 amended: the block of an on-demand table shows 'Total Requests: N/A
\* (On-Demand)', the item count and both throttle counts, and the line
\* 'Latency: N/A' in place of a latency value and of a request count.
C15_NotApplicableLines ==
    OnDemandRendered =>
        /\ "Total Requests: N/A (On-Demand)" \in DynamoLabels
        /\ {"Items: ", "Read Throttles: ", "Write Throttles: "} \subseteq DynamoLabels
        /\ "Latency: N/A" \in DynamoLabels
        /\ {"Latency: ", "Total Requests: "} \cap DynamoLabels = {}

C15_Witness ==
    /\ OnDemandRendered
    /\ pc = "done"
    /\ \E i \in 1..Len(message) :
          /\ message[i].label = "Items: "
          /\ message[i].value = Fixed(Float(7), 0)

\* resolving the load balancer of the web ACL fails
ResolutionFails(pre) ==
    \/ pre.acl.err
    \/ cfg.Services.WAF.Scope # "CLOUDFRONT"
          /\ (pre.list.err \/ pre.list.ResourceArns = 0 \/ pre.list.ResourceArns > 1)

\* C16: the WAF collector fails exactly when the scope is regional and the
\* load balancer cannot be resolved, and then 'waf' is not in the
\* AggregatedReport; under CLOUDFRONT scope it returns a MetricSet queried by
\* the web ACL name alone even when the resolution failed.
C16_WAFFailsOnlyRegional ==
    \A e \in invoked :
       e[1] = "waf" =>
          /\ e \in errors
                <=> (cfg.Services.WAF.Scope # "CLOUDFRONT" /\ ResolutionFails(replies[e].pre))
          /\ e \in errors => "waf" \notin DOMAIN allMetrics
          /\ cfg.Services.WAF.Scope = "CLOUDFRONT" =>
                /\ "waf" \in DOMAIN allMetrics
                /\ DOMAIN wafDimensions(wafScopeOf(wafScope(cfg)), cfg.Services.WAF.WebACLName, "")
                      = {"WebACL"}

\* the web ACL lookup failed under CLOUDFRONT scope and 'waf' is in the report
C16_Witness ==
    \E e \in invoked :
       /\ e[1] = "waf"
       /\ cfg.Services.WAF.Scope = "CLOUDFRONT"
       /\ replies[e].pre.acl.err
       /\ "waf" \in DOMAIN allMetrics
       /\ Built /\ HasBlock("waf")

\* the events of every page of a search
RECURSIVE Events(_)
Events(pages) == IF pages = <<>> THEN 0 ELSE Head(pages).Events + Events(Tail(pages))

\* C17: a level whose search failed on some page is counted 0, a level whose
\* search did not fail is counted in full, and CWLogs returns no failure.
C17_FailedSearchCountsZero ==
    \A e \in invoked :
       e[1] = "cloudwatchLogs" =>
          /\ e \notin errors
          /\ \A i \in 1..Len(levels) :
                MetricSetOf(e)[levels[i]] =
                   IF QueryFailed(e, i) THEN 0 ELSE Events(replies[e].q[i])

\* the cycle ended on a failure before any collector was called
UpstreamFailed ==
    /\ pc = "done" /\ result = "error"
    /\ sendErr = "unset" /\ sends = 0
    /\ invoked = {} /\ allMetrics = EmptyMap /\ message = NotYet

\* C18: the cycle returns an error only when it failed before collection or
\* when the delivery failed; after a delivery that succeeded it returns nil
\* whatever collectors failed.
C18_ErrorOnlyUpstreamOrDelivery ==
    /\ result = "error" => UpstreamFailed \/ (pc = "done" /\ sendErr = "error")
    /\ pc = "done" /\ sendErr = "nil" => result = "nil"
    /\ errors # {} /\ pc = "done" => sendErr # "unset"

\* every collector that can fail failed and the cycle returned nil
C18_Witness ==
    /\ pc = "done" /\ result = "nil"
    /\ \A svc \in Services : Enabled(cfg, svc)
    /\ Fallible \subseteq {e[1] : e \in errors}
    /\ "dynamodb" \notin DOMAIN allMetrics

\* C19: a cycle makes at most one delivery attempt.  The attempt is made
\* after BuildMessage, which runs after every enabled collector returned, and
\* a cycle that got past its setup ends with exactly one attempt, whose
\* failure is the cycle's result; a skipped cycle and a cycle that failed
\* before collection end with none.
C19_SingleDelivery ==
    /\ sends <= 1
    /\ sends = 1 <=> sendErr # "unset"
    /\ sends = 1 =>
          /\ pc = "done" /\ Built
          /\ \A svc \in Services :
                Enabled(cfg, svc) /\ (svc = "s3" => timeParams.IsDailyReport)
                   => \E e \in invoked : e[1] = svc
          /\ result = sendErr
    /\ Pos(pc) > Pos("setup") /\ pc # "done" => sends = 0 /\ result = "running"
    /\ pc = "done" /\ sends = 0 => timeParams = NoWindow \/ UpstreamFailed

\* no key was collected, an empty report was built, and its one delivery failed
C19_Witness ==
    /\ pc = "done"
    /\ allMetrics = EmptyMap
    /\ Built
    /\ sends = 1 /\ sendErr = "error" /\ result = "error"

\* C20: assembling the report again from the same configuration, window and
\* AggregatedReport gives the same text, whatever order the log groups of a
\* sub-section come in.
C20_Deterministic ==
    Built =>
        LET logs == IF "cloudwatchLogs" \in DOMAIN allMetrics
                    THEN allMetrics["cloudwatchLogs"] ELSE EmptyMap
        IN \A appOrder \in MapOrders(applicationLogs(cfg, logs)),
              lambdaOrder \in MapOrders(lambdaLogs(cfg, logs)) :
                BuildMessage(cfg, timeParams, allMetrics, appOrder, lambdaOrder) = message

RECURSIVE Flatten(_)
Flatten(seqs) == IF seqs = <<>> THEN <<>> ELSE Head(seqs) \o Flatten(Tail(seqs))

\* the LoadBalancer identifiers of a listing, in the order listed
LoadBalancerIds(metrics) ==
    LET named == SelectSeq(Flatten([i \in 1..Len(metrics) |-> metrics[i].Dimensions]),
                           LAMBDA d : d.Name = "LoadBalancer")
    IN [i \in 1..Len(named) |-> named[i].Value[1]]

MetricQueries(e) == SelectSeq(queries[e], LAMBDA c : c.op = "GetMetricStatistics")
ListCalls(e) == SelectSeq(queries[e], LAMBDA c : c.op = "ListMetrics")

\* C21: a load-balancer name that starts with "app/" is the dimension of
\* every metric query and no list call is made; any other name is resolved
\* to the first listed LoadBalancer identifier that contains it, and when no
\* listed identifier contains it the collector fails without a metric query.
C21_LoadBalancerResolution ==
    \A e \in DOMAIN replies :
        e[1] = "alb" =>
            LET albName == e[2]
                pre == replies[e].pre
                matching == IF pre.err THEN <<>>
                            ELSE SelectSeq(LoadBalancerIds(pre.Metrics),
                                           LAMBDA v : Contains(v, albName))
            IN IF HasPrefix(albName, appPrefix)
               THEN /\ ListCalls(e) = <<>>
                    /\ MetricQueries(e) # <<>>
                    /\ \A i \in 1..Len(MetricQueries(e)) :
                          MetricQueries(e)[i].Dimensions = << Dimension("LoadBalancer", albName) >>
               ELSE /\ Len(ListCalls(e)) = 1
                    /\ ~pre.err /\ matching # <<>> =>
                          /\ MetricQueries(e) # <<>>
                          /\ \A i \in 1..Len(MetricQueries(e)) :
                                MetricQueries(e)[i].Dimensions
                                   = << Dimension("LoadBalancer", matching[1]) >>
                    /\ ~pre.err /\ matching = <<>> =>
                          /\ e \in errors
                          /\ "alb" \notin DOMAIN allMetrics
                          /\ MetricQueries(e) = <<>>

\* a bare name resolved to an identifier listed after one that does not
\* contain it, and the metric queries made with it
C21_Witness ==
    \E e \in DOMAIN replies :
        /\ e[1] = "alb" /\ ~HasPrefix(e[2], appPrefix) /\ ~replies[e].pre.err
        /\ Len(LoadBalancerIds(replies[e].pre.Metrics)) = 2
        /\ ~Contains(LoadBalancerIds(replies[e].pre.Metrics)[1], e[2])
        /\ Contains(LoadBalancerIds(replies[e].pre.Metrics)[2], e[2])
        /\ Len(MetricQueries(e)) = Len(albMetrics)
        /\ "alb" \in DOMAIN allMetrics

\* the series of a listing that carry the instance's InstanceId dimension
SeriesOfInstance(metrics, instanceID) ==
    SelectSeq(metrics, LAMBDA m : \E i \in 1..Len(m.Dimensions) :
                                     /\ m.Dimensions[i].Name = "InstanceId"
                                     /\ m.Dimensions[i].Value = << instanceID >>)

\* the values a series gives to a dimension name
ValuesIn(series, name) ==
    {series.Dimensions[i].Value[1] :
        i \in {j \in 1..Len(series.Dimensions) :
                  series.Dimensions[j].Name = name /\ series.Dimensions[j].Value # Nil}}

\* the dimensions of the disk query a call of the agent collector issued
DiskQuery(e) == MetricQueries(e)[Len(memMetrics) + 1].Dimensions

MemoryOk(e) == \A i \in 1..Len(memMetrics) : ~replies[e].q[i].err

\* C22: when the listing of the disk series gives no device and no fstype
\* for the instance, the agent collector still queries the disk metric, with
\* empty device and fstype, and does not fail unless a call fails; when that
\* query returns no data point it reports disk_used_percent = 0 next to both
\* memory metrics.
C22_NoDeviceIsNotFailure ==
    \A e \in DOMAIN replies :
        (/\ e[1] = "cloudwatchAgent" /\ MemoryOk(e) /\ ~replies[e].pre.err
         /\ \A i \in 1..Len(SeriesOfInstance(replies[e].pre.Metrics, e[2])) :
               /\ ValuesIn(SeriesOfInstance(replies[e].pre.Metrics, e[2])[i], "device") = {}
               /\ ValuesIn(SeriesOfInstance(replies[e].pre.Metrics, e[2])[i], "fstype") = {})
        => LET disk == replies[e].q[Len(memMetrics) + 1]
           IN /\ Len(MetricQueries(e)) = Len(memMetrics) + 1
              /\ DiskQuery(e) = << Dimension("InstanceId", e[2]), Dimension("path", "/"),
                                   Dimension("device", ""), Dimension("fstype", "") >>
              /\ ~disk.err => e \notin errors /\ "cloudwatchAgent" \in DOMAIN allMetrics
              /\ ~disk.err /\ disk.Datapoints = <<>> =>
                    /\ allMetrics["cloudwatchAgent"]["disk_used_percent"] = Zero
                    /\ \A i \in 1..Len(memMetrics) :
                          "mem_used_percent_" \o memMetrics[i]
                             \in DOMAIN allMetrics["cloudwatchAgent"]

\* a listing without a series of the instance, the disk query answered
\* without data points, and the metric set stored with a zero disk value
C22_Witness ==
    \E e \in DOMAIN replies :
        /\ e[1] = "cloudwatchAgent" /\ MemoryOk(e) /\ ~replies[e].pre.err
        /\ SeriesOfInstance(replies[e].pre.Metrics, e[2]) = <<>>
        /\ ~replies[e].q[Len(memMetrics) + 1].err
        /\ replies[e].q[Len(memMetrics) + 1].Datapoints = <<>>
        /\ "cloudwatchAgent" \in DOMAIN allMetrics
        /\ allMetrics["cloudwatchAgent"]["disk_used_percent"] = Zero
        /\ DiskQuery(e)[3].Value = ""

\* the hours the window of this cycle spans
SpanHours ==
    IF timeParams.IsDailyReport THEN DailyLookbackHours
    ELSE cfg.Global.Monitoring.DefaultPeriod

\* C23: every metric query of a collector other than S3 covers the window
\* with a period of 3600 seconds when the window spans less than 24 hours and
\* of 86400 seconds otherwise, the daily report included; the S3 queries
\* always use 86400 seconds and start one day before the window.
C23_QueryPeriod ==
    \A e \in DOMAIN queries :
        \A i \in 1..Len(MetricQueries(e)) :
            LET query == MetricQueries(e)[i]
            IN /\ query.EndTime = timeParams.EndTime
               /\ IF e[1] = "s3"
                  THEN /\ query.Period = 86400
                       /\ query.StartTime = HoursBeforeNow(SpanHours + 24)
                  ELSE /\ query.Period = (IF SpanHours < 24 THEN 3600 ELSE 86400)
                       /\ query.StartTime = timeParams.StartTime
                       /\ timeParams.IsDailyReport => query.Period = 86400

\* a daily report in which a collector other than S3 queried with the
\* one-day period
C23_Witness ==
    /\ HasWindow /\ timeParams.IsDailyReport
    /\ \E e \in DOMAIN queries :
          /\ e[1] # "s3" /\ MetricQueries(e) # <<>>
          /\ MetricQueries(e)[1].Period = 86400
          /\ TimeSub(timeParams.EndTime, timeParams.StartTime) = Hours(FromNat(24, DurationBytes))

\* C24: a metric query that failed is never reported as a value: the
\* collector failed as a whole, or the metric of that query has no value in
\* its MetricSet.
C24_FailedQueryGivesNoValue ==
    \A e \in invoked \ errors :
        \A i \in 1..QueryCount(e[1]) :
            (e[1] # "cloudwatchLogs" /\ Listed(e, i) /\ ~OnDemandOnly(e, i) /\ QueryFailed(e, i))
            => ListedKey(e[1], i) \notin DOMAIN MetricSetOf(e)

\* the positions of the report at which a log group is listed
GroupLines(n) ==
    {i \in 1..Len(message) : message[i].kind = "group" /\ message[i].ident = escapeMarkdown(n)}

\* the sub-section header above a position of the logs section
HeaderAbove(i) ==
    LET above == {j \in 1..i : message[j].kind = "header" /\ message[j].svc = "cloudwatchLogs"}
    IN message[CHOOSE j \in above : \A k \in above : k <= j].label

\* the logs section lists each configured group that has counts once, with
\* its counts, under LAMBDA when Runtime(name) and under APPLICATION
\* otherwise, and every sub-section header has a group right below it
LogsListed(Runtime(_)) ==
    LET logs == allMetrics["cloudwatchLogs"]
        names == cfg.Services.CloudWatchLogs.LogGroupNames
        headers == {i \in 1..Len(message) :
                       message[i].kind = "header" /\ message[i].svc = "cloudwatchLogs"}
    IN /\ \A k \in 1..Len(names) :
             names[k] \in DOMAIN logs =>
                /\ Cardinality(GroupLines(names[k])) = 1
                /\ \A i \in GroupLines(names[k]) :
                      /\ message[i + 1] = Count("INFO: ", logs[names[k]]["info"])
                      /\ message[i + 2] = Count("WARN: ", logs[names[k]]["warn"])
                      /\ message[i + 3] = Count("ERROR: ", logs[names[k]]["error"])
                      /\ HeaderAbove(i) = (IF Runtime(names[k]) THEN "*LAMBDA*"
                                           ELSE "*APPLICATION*")
       /\ \A i \in headers : message[i + 1].kind = "group"
       /\ \A i, j \in headers : message[i].label = message[j].label => i = j

StartsWithRuntimePrefix(n) == HasPrefix(n, lambdaPrefix)

\* C25: in the logs section every configured log group that has counts is
\* listed exactly once with its error, warn and info counts, under LAMBDA
\* when its name starts with "/aws/lambda/" and under APPLICATION otherwise,
\* and a sub-section header appears only above at least one group.
C25_LogGroupsListed ==
    (Built /\ cfg.Services.CloudWatchLogs.Enabled /\ "cloudwatchLogs" \in DOMAIN allMetrics)
    => LogsListed(StartsWithRuntimePrefix)

\* a flat metric map: metric names to float64 values
IsFlatMap(m) == \A k \in DOMAIN m : DOMAIN m[k] = {"num", "den"} /\ m[k].den > 0

\* a map of counts per level
IsCountMap(m) == \A k \in DOMAIN m : m[k] \in Nat

\* C26: building the report never fails: every key logic stored holds the
\* shape BuildMessage asserts for it, a flat metric map for ec2, s3, alb,
\* cloudfront, cloudwatchAgent, waf and rds and a map of per-resource maps
\* for dynamodb and cloudwatchLogs, and a service without a stored key has
\* no line in the report.
C26_BuildNeverFails ==
    /\ result # "panic" /\ message # Panic
    /\ \A key \in DOMAIN allMetrics :
          /\ key \in Services
          /\ typeStored(key) = typeAsserted(key)
          /\ IF key \in {"cloudwatchLogs", "dynamodb"}
             THEN /\ typeStoredIn(key) = typeAssertedIn(key)
                  /\ \A n \in DOMAIN allMetrics[key] :
                        IF key = "dynamodb" THEN IsFlatMap(allMetrics[key][n])
                        ELSE IsCountMap(allMetrics[key][n])
             ELSE IsFlatMap(allMetrics[key])
    /\ Built => \A svc \in Services \ DOMAIN allMetrics : ~HasBlock(svc)

\* a report built from an AggregatedReport that holds flat and per-resource
\* values while other enabled collectors failed
C26_Witness ==
    /\ Built /\ message # Panic
    /\ {"ec2", "dynamodb", "cloudwatchLogs", "rds"} \subseteq DOMAIN allMetrics
    /\ \E e \in errors : e[1] \in {"alb", "waf"}
    /\ HasBlock("dynamodb") /\ HasBlock("cloudwatchLogs") /\ ~HasBlock("alb")

\* the value a series gives to a dimension name, "" when it gives none
ValueIn(series, name) ==
    IF ValuesIn(series, name) = {} THEN "" ELSE CHOOSE v \in ValuesIn(series, name) : TRUE

\* the device and fstype of one listed series
PairOf(series) ==
    [device |-> ValueIn(series, "device"), fstype |-> ValueIn(series, "fstype")]

\* C27: the device and fstype of the disk query are those of one single
\* listed series of the instance, the first that gives them; they are never
\* taken from two different series.
C27_DiskPairFromOneSeries ==
    \A e \in DOMAIN replies :
        (e[1] = "cloudwatchAgent" /\ MemoryOk(e) /\ ~replies[e].pre.err)
        => LET listed == SeriesOfInstance(replies[e].pre.Metrics, e[2])
               used == [device |-> DiskQuery(e)[3].Value, fstype |-> DiskQuery(e)[4].Value]
           IN IF listed = <<>> THEN used = [device |-> "", fstype |-> ""]
              ELSE \E k \in 1..Len(listed) :
                      /\ used = PairOf(listed[k])
                      /\ \A j \in 1..(k - 1) :
                            PairOf(listed[j]).device = "" \/ PairOf(listed[j]).fstype = ""

\* C28: at every point of a cycle each key of the aggregated report, and each
\* collector call made so far, belongs to a service the configuration enables;
\* for "s3" the cycle is moreover a daily-report cycle.
C28_OnlyEnabledServices ==
    /\ \A k \in DOMAIN allMetrics :
          Enabled(cfg, k) /\ (k = "s3" => timeParams.IsDailyReport)
    /\ \A e \in invoked :
          Enabled(cfg, e[1]) /\ (e[1] = "s3" => timeParams.IsDailyReport)

\* the collectors have all had their turn in a cycle whose configuration
\* enables some services and not others, and only the enabled ones left a key
C28_Witness ==
    /\ pc = "build"
    /\ cfg.Services.RDS.Enabled /\ "rds" \in DOMAIN allMetrics
    /\ cfg.Services.ALB.Enabled /\ <<"alb", cfg.Services.ALB.ALBName>> \in errors
    /\ ~cfg.Services.EC2.Enabled /\ ~cfg.Services.WAF.Enabled
    /\ DOMAIN allMetrics = {"rds"}
\* the log-group loop of the cycle is behind
PastLogs ==
    \/ pc \in {"waf", "dynamodb", "rds", "build", "send"}
    \/ pc = "done" /\ Built

\* C29: once the log-group loop of a cycle with CloudWatch Logs enabled is
\* behind, the "cloudwatchLogs" key is in the aggregated report with an entry
\* for every configured log group and no log group is recorded as failed,
\* however many of the searches failed.
C29_LogsAlwaysPresent ==
    (cfg.Services.CloudWatchLogs.Enabled /\ PastLogs) =>
        LET names == cfg.Services.CloudWatchLogs.LogGroupNames
        IN /\ "cloudwatchLogs" \in DOMAIN allMetrics
           /\ \A i \in 1..Len(names) :
                 /\ names[i] \in DOMAIN allMetrics["cloudwatchLogs"]
                 /\ <<"cloudwatchLogs", names[i]>> \in invoked \ errors

\* every search of every configured log group failed, and each group has
\* its entry, all counts zero
C29_Witness ==
    /\ cfg.Services.CloudWatchLogs.Enabled /\ PastLogs
    /\ LET names == cfg.Services.CloudWatchLogs.LogGroupNames
       IN /\ Len(names) > 0
          /\ \A i \in 1..Len(names) :
                /\ replies[<<"cloudwatchLogs", names[i]>>] = DownReply("cloudwatchLogs")
                /\ \A l \in DOMAIN allMetrics["cloudwatchLogs"][names[i]] :
                      allMetrics["cloudwatchLogs"][names[i]][l] = 0
\* the order of the blocks in a report
BlockOrder ==
    << "ec2", "cloudwatchAgent", "s3", "alb", "cloudfront", "dynamodb", "rds", "waf",
       "cloudwatchLogs" >>

Rank == [svc \in Services |-> CHOOSE i \in 1..Len(BlockOrder) : BlockOrder[i] = svc]

\* the tables that have a block, as the report names them
TablesShown ==
    LET shown == SelectSeq(cfg.Services.DynamoDB.TableNames,
                           LAMBDA n : n \in DOMAIN allMetrics["dynamodb"])
    IN [i \in 1..Len(shown) |-> escapeMarkdown(shown[i])]

TableHeaders ==
    LET headers == SelectSeq(message, LAMBDA l : l.svc = "dynamodb" /\ l.kind = "header")
    IN [i \in 1..Len(headers) |-> headers[i].ident]

\* C30: the lines of the service blocks of a report stand together between
\* the opening and the closing delimiter, in the order EC2, CloudWatch Agent,
\* S3, ALB, CloudFront, DynamoDB, RDS, WAF, logs, and the DynamoDB tables in
\* their configured order, whatever the order in which the collectors ran.
C30_BlockOrder ==
    (Built /\ message # Panic) =>
        LET first == Len(opening(timeParams)) + 1
            last == Len(message) - 1
        IN /\ \A i \in 1..Len(message) :
                 message[i].svc # "" =>
                    /\ i >= first /\ i <= last
                    /\ IF message[i + 1].svc = "" THEN i = last
                       ELSE Rank[message[i].svc] <= Rank[message[i + 1].svc]
           /\ "dynamodb" \in DOMAIN allMetrics => TableHeaders = TablesShown

\* a report with blocks of services that were collected in another order
\* than they are written, and with a block for more than one table
C30_Witness ==
    /\ Built /\ message # Panic
    /\ HasBlock("cloudwatchAgent") /\ HasBlock("s3") /\ HasBlock("cloudfront")
    /\ HasBlock("rds") /\ HasBlock("waf") /\ HasBlock("cloudwatchLogs")
    /\ HasBlock("dynamodb") /\ Len(TableHeaders) > 1

====
